---- MODULE Spec2Model ----
(***************************************************************************)
(* A model of the HMI gesture-recognition engine:                          *)
(*   - NativeGestureDetector  (src/core/gesture-detector.js)               *)
(*   - the simple GestureDetector (src/docs/MULTI_MODAL_DETECTION.md)      *)
(*   - EventRegistry and PatternMatcher (src/unnamed/part_007)             *)
(* Each operation of the code is one action; callbacks supplied by the     *)
(* application (detectors, guard conditions, handlers) are drawn from      *)
(* small sets of behaviours.                                               *)
(***************************************************************************)
EXTENDS Integers, Sequences, FiniteSets, TLC

(***************************************************************************)
(* Bounds of the model.                                                    *)
(***************************************************************************)
MaxTime == 300
MaxLoops == 2
MaxHandlers == 2
MaxConditions == 2
MaxCallbacks == 3
MaxTriggered == 2
MaxEvents == 104
MaxSubscriptions == 2
MaxHistory == 2
MaxFeed == 3
MaxFrames == 103
MaxInits == 2          \* init() calls made on one HMISystem
MaxChain == 3          \* calls made on one gesture builder
MaxRawEvents == 5

(***************************************************************************)
(* Program constants.                                                      *)
(***************************************************************************)
DefaultCooldown == 100
HistoryCapacity == 100
SimpleHistorySize == 50
SimpleSampleRate == 16
SequenceTimeout == 5000
MaxGapSize == 1000
MinCirclePoints == 8
PinchPlaceholder == 100
MonitorSampleRate == 60
MinSampleRate == 15
KeptSamples == 100
MonitorMaxSamples == 1000
EmergencyFps == 20

(***************************************************************************)
(* Input sets.                                                             *)
(***************************************************************************)
Names == {"a", "b"}
NoName == "null"
StartTimes == {0, 200}
ClockSteps == {50, 100}
EventSteps == {8}
EpochOffset == 1000 * 1000
EventNames == {"e1", "e2"}
BusHandlers == {"ok", "throw"}
NoOff == [ev |-> "", h |-> ""]
Plain == [once |-> FALSE, throttle |-> 0, debounce |-> 0]
SubscribeOptions ==
    {Plain, [Plain EXCEPT !.once = TRUE], [Plain EXCEPT !.throttle = 100],
     [Plain EXCEPT !.debounce = 100]}
CooldownChoices == {0, 150}
HandlerKinds == {"ok", "throw", "stop"}
ConditionKinds == {"true", "false"}
DetectorOutcomes == {"match", "nomatch", "throw"}
MutatingOutcomes == {"nomatch", "pop"}
SequenceSteps == <<"A", "B", "C">>
FeedTypes == {"A", "B", "C"}
FeedSteps == {500, 6000}
FpsReadings == {10, 25}
NotNumeric == 0 - 1
GridCoords == {0, 50, 100}
GridPoints == [x : GridCoords, y : GridCoords]
MidPoints == {[x |-> 0, y |-> 0], [x |-> 100, y |-> 100]}
SwipeDurations == {100, 600}
Directions == {"right", "down", "left", "up"}
NoDirection == ""
CircleCounts == {8, 12, 16, 24}
CircleRadii == {20, 50}
CircleCenters == {[x |-> 100, y |-> 100], [x |-> 60, y |-> 80], [x |-> 75, y |-> 50]}
Tolerances == {[num |-> 3, den |-> 10], [num |-> 1, den |-> 10]}
Displaced == 0..4
StepLists == {<<"A", "B", "C">>, <<"A", "B", "C", "D", "E">>}
GivenTypes == {"A", "B", "C", "D", "E"}
GivenLengths == 3..5
GivenSpacing == 500
\* gesture(name).mouseLine(3, 20)
LineMinLength == 3
LineMaxDeviation == 20
TouchIds == {1, 2, 3}
TouchPoints == {[x |-> 0, y |-> 0], [x |-> 100, y |-> 0], [x |-> 150, y |-> 0]}
PinchThresholds == {[num |-> 1, den |-> 5], [num |-> 1, den |-> 2]}
RegistryNames == {"global", "properties", "sidebar"}
GestureNames == {"gesture1", "gesture2"}
ContextNames == {"default", "test1", "test2"}
ContextLists == {{}, {"gesture1"}, {"gesture1", "gesture2"}}
\* contexts.get(name) of a context never added, and gestures.get(name) of a
\* gesture never registered
NoContext == [known |-> FALSE, gestures |-> {}]
NoGesture == [registered |-> FALSE, enabled |-> FALSE, lastTriggered |-> 0]
SwipeOptions == [direction : Directions \cup {NoDirection},
                 minDistance : {0, 50, 120}, maxTime : {500}]

VARIABLES
    \* NativeGestureDetector[PRIVATE]
    patterns,        \* Map name -> pattern record (the registered names)
    patternOrder,    \* insertion order of the Map's keys
    rafQueue,        \* number of analysis callbacks the browser holds
    rafLive,         \* rafId names a callback that is still pending
    attachedSets,    \* listener sets attached to the target
    listenersHeld,   \* the listeners Map is non-empty
    now,             \* performance.now()
    \* observations of the last operation
    tickLog,         \* what the last detection pass did, in order
    tickThrew,       \* the last detection pass ended by an exception
    passStopped,     \* the last detection pass began after stop()
    stopped,         \* stop() was called and detection not started since
    lastOp,          \* the last registry call and how it ended
    lastFire,        \* per name: when its handlers last ran (-1: never)
    \* sample buffers
    mouseHistory,    \* NativeGestureDetector[PRIVATE].mouseHistory
    simpleActive,    \* GestureDetector.isActive
    simpleHistory,   \* GestureDetector.mouseHistory
    lastSampleTime,  \* GestureDetector.lastSampleTime
    evCount,         \* pointer events the platform has delivered so far
    nativeArrived,   \* samples mouseHistory took since the last pointer-down
    simpleArrived,   \* samples simpleHistory took since the last pointer-down
    pointerUp,       \* the pointer went up and has not gone down since
    \* EventRegistry
    busListeners,    \* this[LISTENERS]: event name -> wrapped handlers, in order
    wrappers,        \* the closures wrapHandler has returned, by number
    activeListeners, \* this[PRIVATE].activeListeners
    eventHistory,    \* this[PRIVATE].eventHistory
    busLog,          \* the handler calls of the last dispatch or timer
    unsubscribed,    \* the wrappers whose unsubscribe function was called
    offCalled,       \* the off(eventName, handler) followed only by publishes
    busThrew,        \* the last dispatch ended by an exception
    executed,        \* the once-wrappers whose handler has run at least once
    executedTwice,   \* the once-wrappers whose handler has run more than once
    historyDropped,  \* a recorded publish has found the history full
    \* sequences
    seqData,         \* the events fed so far, as data.sequence
    seqPattern,      \* the pattern of the last PatternMatcher call
    seqResult,       \* <<result>> of the last PatternMatcher call, <<>> before
    \* PerformanceMonitor, and the detector's mode flag
    monSampleRate,   \* PerformanceMonitor.sampleRate
    monSamples,      \* PerformanceMonitor.samples (each sample by frame number)
    monFrames,       \* frames the monitor has measured so far
    performanceMode, \* NativeGestureDetector[PRIVATE].performanceMode
    \* the lifecycle handle startDetection returns
    paused,          \* pause() was called on the handle and resume() not since
    \* swipe and circle detectors: the last evaluation
    swipeInput,      \* <<[points, options]>> last given to detectSwipe
    swipeResult,     \* <<first result, result of evaluating again>>
    circleInput,     \* <<[points, options, truth]>> last given to detectMouseCircle
    circleResult,    \* <<result>>
    \* simple HMIManager
    mgrContexts,     \* HMIManager.contexts: context name -> gesture names
    activeContext,   \* HMIManager.activeContext
    mgrGestures,     \* GestureDetector.gestures: name -> [enabled, lastTriggered]
    mgrFired,        \* the gestures whose callback the last detect() called
    contextSet,      \* setContext has been called
    contextListed,   \* the gestures the context listed when setContext was called
    mgrActive,       \* GestureDetector.isActive
    \* touch contacts
    touches,         \* the platform's list of active contacts (e.touches)
    touchHistory,    \* NativeGestureDetector[PRIVATE].touchHistory
    simpleTouchHistory, \* GestureDetector.touchHistory
    pinchResult,     \* <<[native, simple]>>: the last pinch evaluations
    \* the fluent builder
    builderCalls,    \* the calls made so far on gesture(name), in order
    \* HMISystem
    initialized,     \* this[PRIVATE].initialized
    initPending,     \* init() calls waiting at `await initializeCoreComponents`
    coreCreated,     \* times the four core components have been created
    globalHandlerSets, \* keydown/gesturedetected listener pairs added to the target
    monitorLoops,    \* performance monitoring loops started
    sysRegistries,   \* the keys of this[REGISTRIES]
    registryActive,  \* per registry: its active flag
    sysActiveContext, \* this[STATE].activeContext
    detectionActive, \* this[STATE].detectionActive
    contextReturned  \* the context the last call, a setActiveContext, returned true for

dispVars == <<patterns, patternOrder, rafQueue, rafLive, attachedSets,
              listenersHeld, now, tickLog, tickThrew, passStopped, stopped,
              lastOp, lastFire>>

passBufVars == <<simpleActive, simpleHistory, lastSampleTime, evCount,
                 nativeArrived, simpleArrived, pointerUp>>

bufVars == <<mouseHistory, simpleActive, simpleHistory, lastSampleTime,
             evCount, nativeArrived, simpleArrived, pointerUp>>

busVars == <<busListeners, wrappers, activeListeners, eventHistory, busLog,
             unsubscribed, offCalled, busThrew, executed,
             executedTwice,
                   historyDropped>>

seqVars == <<seqData, seqPattern, seqResult>>

monVars == <<monSampleRate, monSamples, monFrames, performanceMode>>

hmiVars == <<paused>>

swipeVars == <<swipeInput, swipeResult>>

circleVars == <<circleInput, circleResult>>

mgrVars == <<mgrContexts, activeContext, mgrGestures, mgrFired, contextSet,
            contextListed, mgrActive>>

touchVars == <<touches, touchHistory, simpleTouchHistory, pinchResult>>

initVars == <<initialized, initPending, coreCreated, globalHandlerSets, monitorLoops>>

ctxVars == <<sysRegistries, registryActive, sysActiveContext, detectionActive,
            contextReturned>>

lateVars == <<builderCalls, initVars, ctxVars>>

preVars == <<monVars, hmiVars, swipeVars, circleVars, mgrVars, touchVars>>

moreVars == <<monVars, hmiVars, swipeVars, circleVars, mgrVars, touchVars, lateVars>>

vars == <<dispVars, bufVars, busVars, seqVars, moreVars>>

nonDispVars == <<bufVars, busVars, seqVars, moreVars>>

(***************************************************************************)
(* Helpers.                                                                *)
(***************************************************************************)
Registered == DOMAIN patterns

Entry(k, n, i, v) == [k |-> k, n |-> n, i |-> i, v |-> v]

NoOp == [op |-> "none", name |-> NoName, existed |-> FALSE, threw |-> FALSE]

(***************************************************************************)
(* The part of the detector a detection pass reads and writes: handlers    *)
(* run inside the pass and may call back into the detector.                *)
(***************************************************************************)
PassState(queue, live) ==
    [patterns |-> patterns, rafQueue |-> queue, rafLive |-> live,
     attachedSets |-> attachedSets, listenersHeld |-> listenersHeld,
     stopped |-> stopped, log |-> <<>>, threw |-> FALSE,
     mouseHistory |-> mouseHistory]

Logged(st, e) == [st EXCEPT !.log = Append(@, e)]

\* removeNativeListeners: detaches the listeners the Map holds, clears the Map
removeNativeListeners(st) ==
    IF st.listenersHeld
    THEN [st EXCEPT !.attachedSets = @ - 1, !.listenersHeld = FALSE]
    ELSE st

\* stopDetection() with no pattern name
stopDetectionAll(st) ==
    LET off == [st EXCEPT !.patterns =
                    [n \in DOMAIN @ |-> [@[n] EXCEPT !.active = FALSE]]]
        det == removeNativeListeners(off)
    IN [det EXCEPT !.rafQueue = IF det.rafLive THEN @ - 1 ELSE @,
                   !.rafLive = FALSE,
                   !.stopped = TRUE]

\* stopDetection(patternName)
stopDetectionOne(st, n) ==
    IF n \in DOMAIN st.patterns
    THEN [st EXCEPT !.patterns[n].active = FALSE]
    ELSE st

\* pattern.handlers.forEach(handler => { try { handler(..) } catch { log } })
RECURSIVE callHandlersAbort(_, _, _)
callHandlersAbort(st, n, i) ==
    LET hs == st.patterns[n].handlers IN
    IF i > Len(hs) THEN st
    ELSE LET called == Logged(st, Entry("call", n, i, hs[i])) IN
         IF hs[i] = "throw" THEN called
         ELSE callHandlersAbort(
                 IF hs[i] = "stop" THEN stopDetectionAll(called) ELSE called,
                 n, i + 1)

RECURSIVE callHandlers(_, _, _)
callHandlers(st, n, i) ==
    LET hs == st.patterns[n].handlers IN
    IF i > Len(hs) THEN st
    ELSE LET called == Logged(st, Entry("call", n, i, hs[i])) IN
         callHandlers(
             IF hs[i] = "stop" THEN stopDetectionAll(called) ELSE called,
             n, i + 1)

\* result.confidence || 0 of the result a custom detector returns, in
\* hundredths: the detector of "a" reports 0.8, that of "b" no confidence
resultConfidence(n) == IF n = "a" THEN 80 ELSE 0

\* the first four assignments of triggerGesture
countTrigger(p, n, t) ==
    [p EXCEPT !.lastTriggered = t,
              !.triggered = @ + 1,
              !.totalConfidence = @ + resultConfidence(n),
              !.avgConfidence = (p.totalConfidence + resultConfidence(n))
                                   \div (p.triggered + 1)]

\* triggerGesture(name, result) at performance.now() = t
triggerGestureNoCooldown(st, n, t) ==
    LET fired == [st EXCEPT !.patterns[n] = countTrigger(@, n, t)]
        ran == callHandlers(Logged(fired,
                   Entry("fire", n, Len(st.patterns[n].handlers), "")), n, 1)
    IN Logged(ran, Entry("event", n, 0, "gesturedetected"))

\* a trigger that dispatches gesturedetected before it calls the handlers
triggerGestureEventFirst(st, n, t) ==
    LET p == st.patterns[n] IN
    IF t - p.lastTriggered < p.cooldown
    THEN Logged(st, Entry("suppress", n, 0, ""))
    ELSE LET fired == [st EXCEPT !.patterns[n] = countTrigger(@, n, t)]
             sent == Logged(Logged(fired, Entry("fire", n, Len(p.handlers), "")),
                            Entry("event", n, 0, "gesturedetected"))
         IN callHandlers(sent, n, 1)

\* a trigger that counts the match before it looks at the cooldown
triggerGestureCountsFirst(st, n, t) ==
    LET p == st.patterns[n]
        counted == [st EXCEPT !.patterns[n].triggered = @ + 1,
                              !.patterns[n].totalConfidence = @ + resultConfidence(n)]
    IN IF t - p.lastTriggered < p.cooldown
       THEN Logged(counted, Entry("suppress", n, 0, ""))
       ELSE triggerGestureNoCooldown(st, n, t)

triggerGesture(st, n, t) ==
    LET p == st.patterns[n] IN
    IF t - p.lastTriggered < p.cooldown
    THEN Logged(st, Entry("suppress", n, 0, ""))
    ELSE LET fired == [st EXCEPT !.patterns[n] = countTrigger(@, n, t)]
             ran == callHandlers(Logged(fired,
                        Entry("fire", n, Len(p.handlers), "")), n, 1)
         IN Logged(ran, Entry("event", n, 0, "gesturedetected"))

\* checkConditions: conditions.every(c => c()) stops at the first false one
RECURSIVE checkConditions(_, _, _)
checkConditions(st, n, i) ==
    LET cs == st.patterns[n].conditions IN
    IF i > Len(cs) THEN [st |-> st, ok |-> TRUE]
    ELSE LET seen == Logged(st, Entry("cond", n, i, cs[i])) IN
         IF cs[i] = "false" THEN [st |-> seen, ok |-> FALSE]
         ELSE checkConditions(seen, n, i + 1)

\* the switch on pattern.type: what the detector of registration n returns
detectorOutcome(p, n, det) ==
    CASE p.type = "custom" -> det[n]
      [] p.type = "sequence" -> "throw"   \* this.analyzeSequence is undefined
      [] OTHER -> "nomatch"

\* Array.prototype.pop on the array a detector was handed
popLast(points) ==
    IF Len(points) = 0 THEN points ELSE SubSeq(points, 1, Len(points) - 1)

\* the body of patterns.forEach in analyzeActiveGestures, for one entry; a
\* custom detector is called with the mouseHistory array itself, and the
\* outcome "pop" is a detector that pops a point off it and reports no match
analyzePattern(st, n, det, t) ==
    LET p == st.patterns[n] IN
    IF ~p.active THEN Logged(st, Entry("skip", n, 0, ""))
    ELSE LET out == detectorOutcome(p, n, det)
             ran == Logged(st, Entry("detect", n, 0, out))
         IN IF out = "throw" THEN [ran EXCEPT !.threw = TRUE]
            ELSE IF out = "match"
                 THEN LET c == checkConditions(ran, n, 1) IN
                      IF c.ok THEN triggerGesture(c.st, n, t) ELSE c.st
                 ELSE IF out = "pop"
                      THEN [ran EXCEPT !.mouseHistory = popLast(@)]
                      ELSE ran

\* analyzeActiveGestures: patterns.forEach(...), ended by the first exception
RECURSIVE analyzeFrom(_, _, _, _)
analyzeFrom(st, i, det, t) ==
    IF i > Len(patternOrder) \/ st.threw THEN st
    ELSE analyzeFrom(analyzePattern(st, patternOrder[i], det, t), i + 1, det, t)

analyzeActiveGestures(st, det, t) == analyzeFrom(st, 1, det, t)

\* the names whose handlers or event the pass log shows
FiredIn(log) == {log[i].n : i \in {j \in DOMAIN log : log[j].k = "event"}}

NewPattern(type) ==
    [type |-> type,
     options |-> CASE type = "sequence" ->
                         [currentStep |-> 0, timeout |-> SequenceTimeout,
                          sequence |-> SequenceSteps]
                   [] type = "mouse_line" ->
                         [minLength |-> LineMinLength,
                          maxDeviation |-> LineMaxDeviation]
                   [] OTHER -> [detectionFn |-> "fn"],
     handlers |-> <<>>, conditions |-> <<>>,
     cooldown |-> DefaultCooldown, lastTriggered |-> 0,
     active |-> FALSE, triggered |-> 0, totalConfidence |-> 0,
     avgConfidence |-> 0]

\* a three-step sequence pattern as PatternMatcher takes it
SequencePattern(allowGaps) ==
    [type |-> "sequence",
     sequence |-> [i \in DOMAIN SequenceSteps |-> [type |-> SequenceSteps[i]]],
     allowGaps |-> allowGaps, maxGapSize |-> MaxGapSize]

(***************************************************************************)
(* Initial state: new NativeGestureDetector(target).                       *)
(***************************************************************************)
Init ==
    /\ patterns = <<>>
    /\ patternOrder = <<>>
    /\ rafQueue = 0
    /\ rafLive = FALSE
    /\ attachedSets = 0
    /\ listenersHeld = FALSE
    /\ now \in StartTimes
    /\ tickLog = <<>>
    /\ tickThrew = FALSE
    /\ passStopped = FALSE
    /\ stopped = FALSE
    /\ lastOp = NoOp
    /\ lastFire = [n \in Names |-> -1]
    /\ mouseHistory = <<>>
    /\ simpleActive = FALSE
    /\ simpleHistory = <<>>
    /\ lastSampleTime = 0
    /\ evCount = 0
    /\ nativeArrived = <<>>
    /\ simpleArrived = <<>>
    /\ busListeners = [ev \in EventNames |-> <<>>]
    /\ wrappers = <<>>
    /\ activeListeners = 0
    /\ eventHistory = <<>>
    /\ busLog = <<>>
    /\ unsubscribed = {}
    /\ offCalled = NoOff
    /\ busThrew = FALSE
    /\ executed = {}
    /\ executedTwice = {}
    /\ historyDropped = FALSE
    /\ seqData = <<>>
    /\ seqPattern = SequencePattern(FALSE)
    /\ seqResult = <<>>
    /\ monSampleRate = MonitorSampleRate
    /\ monSamples = <<>>
    /\ monFrames = 0
    /\ performanceMode = FALSE
    /\ paused = FALSE
    /\ swipeInput = <<>>
    /\ swipeResult = <<>>
    /\ circleInput = <<>>
    /\ circleResult = <<>>
    /\ mgrContexts = [c \in ContextNames |-> NoContext]
    /\ activeContext = "default"
    /\ mgrGestures = [n \in GestureNames |-> NoGesture]
    /\ mgrFired = {}
    /\ contextSet = FALSE
    /\ contextListed = {}
    /\ mgrActive = FALSE
    /\ pointerUp = FALSE
    /\ touches = <<>>
    /\ touchHistory = <<>>
    /\ simpleTouchHistory = <<>>
    /\ pinchResult = <<>>
    /\ builderCalls = <<>>
    /\ initialized = FALSE
    /\ initPending = 0
    /\ coreCreated = 0
    /\ globalHandlerSets = 0
    /\ monitorLoops = 0
    /\ sysRegistries = {}
    /\ registryActive = [r \in RegistryNames |-> FALSE]
    /\ sysActiveContext = "global"
    /\ detectionActive = FALSE
    /\ contextReturned = NoName

\* what every call other than a detection pass leaves of the observations
NoPass ==
    /\ tickLog' = <<>>
    /\ tickThrew' = FALSE
    /\ passStopped' = FALSE

\* the observations a detection pass leaves
PassDone(st, t) ==
    /\ tickLog' = st.log
    /\ tickThrew' = st.threw
    /\ lastFire' = [n \in Names |->
                       IF n \in FiredIn(st.log) THEN t ELSE lastFire[n]]

(***************************************************************************)
(* Registration: gesture(name).custom(fn) / .sequence(...) / .on / .when / *)
(* .cooldown                                                               *)
(***************************************************************************)
registerPattern(n, type) ==
    /\ patterns' = (n :> NewPattern(type)) @@ patterns
    /\ patternOrder' = IF n \in Registered THEN patternOrder
                       ELSE Append(patternOrder, n)
    /\ lastOp' = [op |-> "register", name |-> n,
                  existed |-> n \in Registered, threw |-> FALSE]
    /\ lastFire' = [lastFire EXCEPT ![n] = -1]
    /\ NoPass
    /\ UNCHANGED <<rafQueue, rafLive, attachedSets, listenersHeld, now, stopped>>
    /\ UNCHANGED nonDispVars

addGestureHandler(n, h) ==
    /\ n \in Registered
    /\ Len(patterns[n].handlers) < MaxHandlers
    /\ patterns' = [patterns EXCEPT ![n].handlers = Append(@, h)]
    /\ lastOp' = NoOp
    /\ NoPass
    /\ UNCHANGED <<patternOrder, rafQueue, rafLive, attachedSets,
                   listenersHeld, now, stopped, lastFire>>
    /\ UNCHANGED nonDispVars

addGestureCondition(n, c) ==
    /\ n \in Registered
    /\ Len(patterns[n].conditions) < MaxConditions
    /\ patterns' = [patterns EXCEPT ![n].conditions = Append(@, c)]
    /\ lastOp' = NoOp
    /\ NoPass
    /\ UNCHANGED <<patternOrder, rafQueue, rafLive, attachedSets,
                   listenersHeld, now, stopped, lastFire>>
    /\ UNCHANGED nonDispVars

setGestureCooldown(n, ms) ==
    /\ n \in Registered
    /\ patterns[n].cooldown # ms
    /\ patterns' = [patterns EXCEPT ![n].cooldown = ms]
    /\ lastOp' = NoOp
    /\ NoPass
    /\ UNCHANGED <<patternOrder, rafQueue, rafLive, attachedSets,
                   listenersHeld, now, stopped, lastFire>>
    /\ UNCHANGED nonDispVars

\* gesture(name): one call on the builder object.  custom and mouseLine
\* call registerPattern; on, when and cooldown call addGestureHandler,
\* addGestureCondition and setGestureCooldown, which do nothing when
\* patterns.get(name) is undefined
builderApply(ps, n, call) ==
    CASE call.k = "custom" -> (n :> NewPattern("custom")) @@ ps
      [] call.k = "mouseLine" -> (n :> NewPattern("mouse_line")) @@ ps
      [] call.k = "on" ->
            IF n \in DOMAIN ps THEN [ps EXCEPT ![n].handlers = Append(@, call.arg)]
            ELSE ps
      [] call.k = "when" ->
            IF n \in DOMAIN ps THEN [ps EXCEPT ![n].conditions = Append(@, call.arg)]
            ELSE ps
      [] call.k = "cooldown" ->
            IF n \in DOMAIN ps THEN [ps EXCEPT ![n].cooldown = call.arg]
            ELSE ps

PatternCalls == {"custom", "mouseLine"}

BuilderCallSet ==
    [k : PatternCalls, arg : {""}]
    \cup [k : {"on"}, arg : {"ok", "throw"}]
    \cup [k : {"when"}, arg : ConditionKinds]
    \cup [k : {"cooldown"}, arg : CooldownChoices]

gestureCall(n, call) ==
    /\ Len(builderCalls) < MaxChain
    /\ builderCalls' = Append(builderCalls, call)
    /\ patterns' = builderApply(patterns, n, call)
    /\ patternOrder' = IF call.k \in PatternCalls /\ n \notin Registered
                       THEN Append(patternOrder, n) ELSE patternOrder
    /\ lastOp' = IF call.k \in PatternCalls
                 THEN [op |-> "register", name |-> n,
                       existed |-> n \in Registered, threw |-> FALSE]
                 ELSE NoOp
    /\ lastFire' = IF call.k \in PatternCalls THEN [lastFire EXCEPT ![n] = -1]
                   ELSE lastFire
    /\ NoPass
    /\ UNCHANGED <<rafQueue, rafLive, attachedSets, listenersHeld, now, stopped>>
    /\ UNCHANGED <<bufVars, busVars, seqVars, preVars, initVars, ctxVars>>

(***************************************************************************)
(* SpecBuilder: a chain of calls on gesture("a") of a new detector.        *)
(***************************************************************************)
NextBuilder == \E call \in BuilderCallSet : gestureCall("a", call)

SpecBuilder == Init /\ [][NextBuilder]_vars

\* the trigger counters stay within the model's bound
TriggerRoom == \A n \in Registered : patterns[n].triggered < MaxTriggered

\* handlers and guard conditions registered so far
CallbackCount ==
    LET RECURSIVE Sum(_)
        Sum(S) == IF S = {} THEN 0
                  ELSE LET n == CHOOSE x \in S : TRUE
                       IN Len(patterns[n].handlers) + Len(patterns[n].conditions)
                          + Sum(S \ {n})
    IN Sum(Registered)

(***************************************************************************)
(* Detection control.                                                      *)
(***************************************************************************)
\* startDetection(patternName): listeners, a first pass at once, then the
\* requested patterns are activated; an exception of the first pass leaves
\* the call before the frame is requested and before anything is activated
startDetectionCall(pn, det) ==
    /\ TriggerRoom
    /\ rafQueue < MaxLoops
    /\ attachedSets < MaxLoops + 1
    /\ LET st0 == [PassState(rafQueue, rafLive) EXCEPT
                      !.attachedSets = @ + 1, !.listenersHeld = TRUE]
           st1 == analyzeActiveGestures(st0, det, now)
           wanted == IF pn = NoName THEN Registered ELSE {pn} \cap Registered
           st2 == IF st1.threw THEN st1
                  ELSE [st1 EXCEPT
                          !.rafQueue = @ + 1, !.rafLive = TRUE,
                          !.patterns = [n \in DOMAIN @ |->
                              IF n \in wanted THEN [@[n] EXCEPT !.active = TRUE]
                              ELSE @[n]]]
       IN /\ patterns' = st2.patterns
          /\ rafQueue' = st2.rafQueue
          /\ rafLive' = st2.rafLive
          /\ attachedSets' = st2.attachedSets
          /\ listenersHeld' = st2.listenersHeld
          /\ stopped' = IF st1.threw THEN st1.stopped ELSE FALSE
          /\ passStopped' = FALSE
          /\ PassDone(st1, now)
          /\ mouseHistory' = st1.mouseHistory
          /\ lastOp' = NoOp
    /\ UNCHANGED <<patternOrder, now>>
    /\ UNCHANGED <<passBufVars, busVars, seqVars>>

startDetection(pn, det) == startDetectionCall(pn, det) /\ UNCHANGED moreVars

stopDetectionCall(pn) ==
    /\ LET st == IF pn = NoName THEN stopDetectionAll(PassState(rafQueue, rafLive))
                 ELSE stopDetectionOne(PassState(rafQueue, rafLive), pn)
       IN /\ patterns' = st.patterns
          /\ rafQueue' = st.rafQueue
          /\ rafLive' = st.rafLive
          /\ attachedSets' = st.attachedSets
          /\ listenersHeld' = st.listenersHeld
          /\ stopped' = st.stopped
    /\ lastOp' = NoOp
    /\ NoPass
    /\ UNCHANGED <<patternOrder, now, lastFire>>
    /\ UNCHANGED <<bufVars, busVars, seqVars>>

stopDetection(pn) == stopDetectionCall(pn) /\ UNCHANGED moreVars

\* the requestAnimationFrame callback of startAnalysisLoop: the browser takes
\* the oldest pending callback, runs the pass, and the callback requests the
\* next frame unless the pass threw
analyze(det) ==
    /\ TriggerRoom
    /\ rafQueue > 0
    /\ LET st0 == PassState(rafQueue - 1, rafLive /\ rafQueue > 1)
           st1 == analyzeActiveGestures(st0, det, now)
           st2 == IF st1.threw THEN st1
                  ELSE [st1 EXCEPT !.rafQueue = @ + 1, !.rafLive = TRUE]
       IN /\ patterns' = st2.patterns
          /\ rafQueue' = st2.rafQueue
          /\ rafLive' = st2.rafLive
          /\ attachedSets' = st2.attachedSets
          /\ listenersHeld' = st2.listenersHeld
          /\ stopped' = st2.stopped
          /\ passStopped' = stopped
          /\ PassDone(st1, now)
          /\ mouseHistory' = st1.mouseHistory
    /\ lastOp' = NoOp
    /\ UNCHANGED <<patternOrder, now>>
    /\ UNCHANGED <<passBufVars, busVars, seqVars, moreVars>>

\* time passes between callbacks
advanceClock(d) ==
    /\ now + d <= MaxTime
    /\ now' = now + d
    /\ lastOp' = NoOp
    /\ NoPass
    /\ UNCHANGED <<patterns, patternOrder, rafQueue, rafLive, attachedSets,
                   listenersHeld, stopped, lastFire>>
    /\ UNCHANGED nonDispVars

Detectors == [Names -> DetectorOutcomes]

(***************************************************************************)
(* Spec: registration and dispatch, two registrations, one analysis loop.  *)
(***************************************************************************)
Next ==
    \/ \E n \in Names, type \in {"custom", "sequence"} : registerPattern(n, type)
    \/ \E n \in Names, h \in {"ok", "throw"} :
          CallbackCount < MaxCallbacks /\ addGestureHandler(n, h)
    \/ \E det \in Detectors : rafQueue = 0 /\ startDetection(NoName, det)
    \/ \E det \in Detectors : analyze(det)

Spec == Init /\ [][Next]_vars

(***************************************************************************)
(* SpecGuards: guard conditions of one registration.                       *)
(***************************************************************************)
NextGuards ==
    \/ \E type \in {"custom", "sequence"} : registerPattern("a", type)
    \/ \E h \in {"ok", "throw"} : addGestureHandler("a", h)
    \/ \E c \in ConditionKinds : addGestureCondition("a", c)
    \/ \E det \in Detectors : rafQueue = 0 /\ startDetection(NoName, det)
    \/ \E det \in Detectors : analyze(det)
    \/ advanceClock(100)

SpecGuards == Init /\ [][NextGuards]_vars

(***************************************************************************)
(* SpecCooldown: one registration, its cooldown, and the clock.            *)
(***************************************************************************)
NextCooldown ==
    \/ registerPattern("a", "custom")
    \/ addGestureHandler("a", "ok")
    \/ \E ms \in CooldownChoices \cup {DefaultCooldown} : setGestureCooldown("a", ms)
    \/ \E det \in Detectors : rafQueue = 0 /\ startDetection(NoName, det)
    \/ \E det \in Detectors : analyze(det)
    \/ \E d \in ClockSteps : advanceClock(d)

SpecCooldown == Init /\ [][NextCooldown]_vars

(***************************************************************************)
(* SpecLoop: starting and stopping the analysis loop, also from handlers.  *)
(***************************************************************************)
NextLoop ==
    \/ registerPattern("a", "custom")
    \/ \E h \in {"ok", "stop"} : addGestureHandler("a", h)
    \/ \E pn \in {"a", NoName}, det \in Detectors : startDetection(pn, det)
    \/ \E pn \in {"a", NoName} : stopDetection(pn)
    \/ \E det \in Detectors : analyze(det)
    \/ advanceClock(100)

SpecLoop == Init /\ [][NextLoop]_vars

(***************************************************************************)
(* Sample buffers.  A pointer event e carries clientX, clientY; the native *)
(* detector stamps it with performance.now(), the simple one with          *)
(* Date.now().                                                             *)
(***************************************************************************)
PointerEvent(k) == [clientX |-> k, clientY |-> 0]

DateNow(t) == EpochOffset + t

NativeSample(e, t) == [x |-> e.clientX, y |-> e.clientY, timestamp |-> t, pressure |-> 1]

SimpleSample(e, t) == [x |-> e.clientX, y |-> e.clientY, time |-> DateNow(t)]

\* NativeGestureDetector.handleMouseStart
handleMouseStart(hist, e, t) == <<NativeSample(e, t)>>

\* NativeGestureDetector.handleMouseMove
handleMouseMoveNoShift(hist, e, t) ==
    IF Len(hist) > 0 THEN Append(hist, NativeSample(e, t)) ELSE hist

handleMouseMove(hist, e, t) ==
    IF Len(hist) > 0
    THEN LET pushed == Append(hist, NativeSample(e, t)) IN
         IF Len(pushed) > HistoryCapacity THEN Tail(pushed) ELSE pushed
    ELSE hist

\* GestureDetector.handleMouseDown
simpleHandleMouseDown(hist, e, t) == <<SimpleSample(e, t)>>

\* GestureDetector.handleMouseMove: [mouseHistory, lastSampleTime] after it
simpleHandleMouseMove(hist, last, e, t) ==
    IF DateNow(t) - last < SimpleSampleRate
    THEN [hist |-> hist, last |-> last, took |-> FALSE]
    ELSE LET pushed == Append(hist, SimpleSample(e, t)) IN
         [hist |-> IF Len(pushed) > SimpleHistorySize THEN Tail(pushed) ELSE pushed,
          last |-> DateNow(t), took |-> TRUE]

\* setupNativeListeners: the target holds one mousedown and one mousemove
\* listener per call, so k listener sets run a handler k times for one event
RECURSIVE mouseStartListeners(_, _, _, _)
mouseStartListeners(k, hist, e, t) ==
    IF k = 0 THEN hist
    ELSE mouseStartListeners(k - 1, handleMouseStart(hist, e, t), e, t)

RECURSIVE mouseMoveListeners(_, _, _, _)
mouseMoveListeners(k, hist, e, t) ==
    IF k = 0 THEN hist
    ELSE mouseMoveListeners(k - 1, handleMouseMove(hist, e, t), e, t)

\* GestureDetector.start, with no gesture registered
simpleStart ==
    /\ ~simpleActive
    /\ simpleActive' = TRUE
    /\ UNCHANGED <<mouseHistory, simpleHistory, lastSampleTime, evCount,
                   nativeArrived, simpleArrived, pointerUp>>
    /\ UNCHANGED <<dispVars, busVars, seqVars, moreVars>>

\* the platform delivers mousedown to every attached listener
mouseDownEvent(d) ==
    /\ evCount < MaxEvents
    /\ attachedSets > 0 \/ simpleActive
    /\ LET t == now + d
           e == PointerEvent(evCount + 1)
       IN /\ now' = t
          /\ evCount' = evCount + 1
          /\ mouseHistory' = mouseStartListeners(attachedSets, mouseHistory, e, t)
          /\ nativeArrived' = IF attachedSets > 0 THEN <<NativeSample(e, t)>>
                              ELSE nativeArrived
          /\ simpleHistory' = IF simpleActive
                              THEN simpleHandleMouseDown(simpleHistory, e, t)
                              ELSE simpleHistory
          /\ simpleArrived' = IF simpleActive THEN <<SimpleSample(e, t)>>
                              ELSE simpleArrived
          /\ UNCHANGED <<simpleActive, lastSampleTime>>
          /\ pointerUp' = FALSE
    /\ NoPass /\ lastOp' = NoOp
    /\ UNCHANGED <<patterns, patternOrder, rafQueue, rafLive, attachedSets,
                   listenersHeld, stopped, lastFire>>
    /\ UNCHANGED <<busVars, seqVars, moreVars>>

\* the platform delivers mousemove to every attached listener
mouseMoveEvent(d) ==
    /\ evCount < MaxEvents
    /\ attachedSets > 0 \/ simpleActive
    /\ LET t == now + d
           e == PointerEvent(evCount + 1)
           sm == simpleHandleMouseMove(simpleHistory, lastSampleTime, e, t)
           RECURSIVE Repeat(_, _)
           Repeat(k, sq) == IF k = 0 THEN sq
                            ELSE Repeat(k - 1, Append(sq, NativeSample(e, t)))
       IN /\ now' = t
          /\ evCount' = evCount + 1
          /\ mouseHistory' = mouseMoveListeners(attachedSets, mouseHistory, e, t)
          /\ nativeArrived' = IF Len(mouseHistory) > 0
                              THEN Repeat(attachedSets, nativeArrived)
                              ELSE nativeArrived
          /\ simpleHistory' = IF simpleActive THEN sm.hist ELSE simpleHistory
          /\ lastSampleTime' = IF simpleActive THEN sm.last ELSE lastSampleTime
          /\ simpleArrived' = IF simpleActive /\ sm.took
                              THEN Append(simpleArrived, SimpleSample(e, t))
                              ELSE simpleArrived
          /\ UNCHANGED <<simpleActive, pointerUp>>
    /\ NoPass /\ lastOp' = NoOp
    /\ UNCHANGED <<patterns, patternOrder, rafQueue, rafLive, attachedSets,
                   listenersHeld, stopped, lastFire>>
    /\ UNCHANGED <<busVars, seqVars, moreVars>>

(***************************************************************************)
(* EventRegistry.  A function value is a wrapper (a closure wrapHandler    *)
(* made, by number) or a handler the application passed in.                *)
(***************************************************************************)
WrapperFn(w) == [kind |-> "wrapper", w |-> w, h |-> ""]

HandlerFn(h) == [kind |-> "handler", w |-> 0, h |-> h]

BusState ==
    [listeners |-> busListeners, wrappers |-> wrappers,
     activeListeners |-> activeListeners, history |-> eventHistory, log |-> <<>>,
     threw |-> FALSE]

Without(sq, x) == SelectSeq(sq, LAMBDA y : y # x)

InSeq(sq, x) == \E i \in DOMAIN sq : sq[i] = x

\* wrapHandler(handler, options): a new closure with its own lastCall,
\* timeoutId and called
wrapHandler(ev, h, options) ==
    [event |-> ev, handler |-> h, once |-> options.once,
     throttle |-> options.throttle, debounce |-> options.debounce,
     lastCall |-> 0, called |-> FALSE, timer |-> FALSE, timerNow |-> 0]

\* off(eventName, handler): Set.delete by identity; an emptied Set is dropped
busOffKeepsAll(bs, ev, f) == bs

busOff(bs, ev, f) ==
    IF f.kind = "wrapper" /\ InSeq(bs.listeners[ev], f.w)
    THEN [bs EXCEPT !.listeners[ev] = Without(@, f.w),
                    !.activeListeners = @ - 1]
    ELSE bs

\* on(eventName, handler, options) called from inside a handler
busOnIn(bs, ev, h, options) ==
    [bs EXCEPT !.wrappers = Append(@, wrapHandler(ev, h, options)),
               !.listeners[ev] = Append(@, Len(bs.wrappers) + 1),
               !.activeListeners = @ + 1]

\* the closure wrapHandler returns, called with an event at time t; the
\* handler "subscribe" subscribes a plain handler to the event it is called
\* for, as long as the registry has room
callWrapper(bs, w, t) ==
    LET c == bs.wrappers[w] IN
    IF c.once /\ c.called THEN bs
    ELSE IF c.throttle # 0 /\ t - c.lastCall < c.throttle THEN bs
    ELSE IF c.debounce # 0
         THEN [bs EXCEPT !.wrappers[w].timer = TRUE, !.wrappers[w].timerNow = t]
    ELSE LET logged == [bs EXCEPT !.log = Append(@, [w |-> w, h |-> c.handler])]
             ran == IF c.handler = "subscribe" /\ Len(bs.wrappers) < MaxSubscriptions
                    THEN busOnIn(logged, c.event, "ok", Plain)
                    ELSE logged
         IN IF c.handler = "throw" THEN ran
            ELSE [ran EXCEPT !.wrappers[w].lastCall = t,
                             !.wrappers[w].called = c.once]

\* a loop over the listeners that a throwing handler ends
RECURSIVE callListenersAbort(_, _, _, _)
callListenersAbort(bs, ev, i, t) ==
    IF i > Len(bs.listeners[ev]) THEN bs
    ELSE LET r == callWrapper(bs, bs.listeners[ev][i], t) IN
         IF Len(r.log) > Len(bs.log) /\ r.log[Len(r.log)].h = "throw"
         THEN [r EXCEPT !.threw = TRUE]
         ELSE callListenersAbort(r, ev, i + 1, t)

\* for (const listener of listeners) { try { listener(eventData) } catch {} }
\* over the Set of the event itself: the iterator of a Set also visits the
\* entries added to it while the loop runs
RECURSIVE callListeners(_, _, _, _)
callListeners(bs, ev, i, t) ==
    IF i > Len(bs.listeners[ev]) THEN bs
    ELSE callListeners(callWrapper(bs, bs.listeners[ev][i], t), ev, i + 1, t)

\* a history that only grows
addToHistoryNoShift(hist, entry) == Append(hist, entry)

\* addToHistory(eventData), with maxEvents configured as MaxHistory
addToHistory(hist, entry) ==
    LET pushed == Append(hist, entry) IN
    IF Len(pushed) > MaxHistory THEN Tail(pushed) ELSE pushed

\* the wrappers whose handler a log shows running
Ran(log) == {log[i].w : i \in DOMAIN log}

\* those of them that were subscribed with the once option (a handler
\* subscribed from inside a handler is subscribed without options)
OnceRan(log) == {w \in Ran(log) \cap DOMAIN wrappers : wrappers[w].once}

\* on(eventName, handler, options); the caller keeps the returned function
busOn(ev, h, options) ==
    /\ Len(wrappers) < MaxSubscriptions
    /\ wrappers' = Append(wrappers, wrapHandler(ev, h, options))
    /\ busListeners' = [busListeners EXCEPT ![ev] = Append(@, Len(wrappers) + 1)]
    /\ activeListeners' = activeListeners + 1
    /\ busLog' = <<>>
    /\ offCalled' = NoOff
    /\ busThrew' = FALSE
    /\ UNCHANGED <<eventHistory, unsubscribed, executed, executedTwice,
                   historyDropped>>
    /\ UNCHANGED <<dispVars, bufVars, seqVars, moreVars>>

\* the function on() returned for wrapper w: () => this.off(eventName, w)
unsubscribe(w) ==
    /\ w \in DOMAIN wrappers
    /\ LET bs == busOff(BusState, wrappers[w].event, WrapperFn(w))
       IN /\ busListeners' = bs.listeners
          /\ activeListeners' = bs.activeListeners
    /\ unsubscribed' = unsubscribed \cup {w}
    /\ busLog' = <<>>
    /\ busThrew' = FALSE
    /\ offCalled' = NoOff
    /\ UNCHANGED <<wrappers, eventHistory, executed, executedTwice,
                   historyDropped>>
    /\ UNCHANGED <<dispVars, bufVars, seqVars, moreVars>>

\* off(eventName, handler) with a handler the application holds
offHandler(ev, h) ==
    /\ LET bs == busOff(BusState, ev, HandlerFn(h))
       IN /\ busListeners' = bs.listeners
          /\ activeListeners' = bs.activeListeners
    /\ busLog' = <<>>
    /\ offCalled' = [ev |-> ev, h |-> h]
    /\ busThrew' = FALSE
    /\ UNCHANGED <<wrappers, eventHistory, unsubscribed, executed,
                   executedTwice,
                   historyDropped>>
    /\ UNCHANGED <<dispVars, bufVars, seqVars, moreVars>>

\* dispatch(eventName, data)
dispatch(ev) ==
    /\ IF busListeners[ev] = <<>>
       THEN /\ busLog' = <<>>
            /\ busThrew' = FALSE
            /\ UNCHANGED <<wrappers, eventHistory, executed, executedTwice,
                   historyDropped, busListeners, activeListeners>>
       ELSE LET bs == callListeners(BusState, ev, 1, now)
            IN /\ wrappers' = bs.wrappers
               /\ busListeners' = bs.listeners
               /\ activeListeners' = bs.activeListeners
               /\ busLog' = bs.log
               /\ busThrew' = bs.threw
               /\ executed' = executed \cup OnceRan(bs.log)
               /\ executedTwice' = executedTwice \cup (executed \cap OnceRan(bs.log))
               /\ eventHistory' = addToHistory(eventHistory,
                                      [type |-> ev, timestamp |-> now])
               /\ historyDropped' = (historyDropped \/ Len(eventHistory) = MaxHistory)
    /\ UNCHANGED <<unsubscribed, offCalled>>
    /\ UNCHANGED <<dispVars, bufVars, seqVars, moreVars>>

\* the setTimeout callback of a debounced wrapper
debounceTimer(w) ==
    /\ w \in DOMAIN wrappers
    /\ wrappers[w].timer
    /\ now >= wrappers[w].timerNow + wrappers[w].debounce
    /\ busLog' = <<[w |-> w, h |-> wrappers[w].handler]>>
    /\ wrappers' = IF wrappers[w].handler = "throw"
                   THEN [wrappers EXCEPT ![w].timer = FALSE]
                   ELSE [wrappers EXCEPT ![w].timer = FALSE,
                                         ![w].lastCall = wrappers[w].timerNow,
                                         ![w].called = wrappers[w].once]
    /\ busThrew' = FALSE
    /\ executed' = executed \cup OnceRan(busLog')
    /\ executedTwice' = executedTwice \cup (executed \cap OnceRan(busLog'))
    /\ UNCHANGED <<busListeners, activeListeners, eventHistory, unsubscribed,
                   offCalled, historyDropped>>
    /\ UNCHANGED <<dispVars, bufVars, seqVars, moreVars>>

\* time passes between two calls into the registry
busClock(d) ==
    /\ now + d <= MaxTime
    /\ now' = now + d
    /\ busLog' = <<>>
    /\ UNCHANGED <<patterns, patternOrder, rafQueue, rafLive, attachedSets,
                   listenersHeld, tickLog, tickThrew, passStopped, stopped,
                   lastOp, lastFire>>
    /\ busThrew' = FALSE
    /\ UNCHANGED <<busListeners, wrappers, activeListeners, eventHistory,
                   unsubscribed, offCalled, executed, executedTwice,
                   historyDropped>>
    /\ UNCHANGED <<bufVars, seqVars, moreVars>>

(***************************************************************************)
(* SpecBus: subscriptions and publishes of one EventRegistry, handlers     *)
(* subscribed plainly or once.  SpecBusTimed adds throttled and debounced  *)
(* subscriptions, the clock and the debounce timers.                       *)
(***************************************************************************)
NextBus ==
    \/ \E ev \in EventNames, h \in BusHandlers, o \in {Plain, [Plain EXCEPT !.once = TRUE]} :
          busOn(ev, h, o)
    \/ \E w \in 1..MaxSubscriptions : unsubscribe(w)
    \/ \E ev \in EventNames : dispatch(ev)

\* the same with off(eventName, handler) called on handlers the application holds
NextBusOff ==
    \/ NextBus
    \/ \E ev \in EventNames, h \in BusHandlers : offHandler(ev, h)

NextBusTimed ==
    \/ \E h \in BusHandlers, o \in SubscribeOptions : busOn("e1", h, o)
    \/ \E w \in 1..MaxSubscriptions : unsubscribe(w)
    \/ dispatch("e1")
    \/ \E w \in 1..MaxSubscriptions : debounceTimer(w)
    \/ busClock(100)

SpecBusTimed == Init /\ [][NextBusTimed]_vars

SpecBus == Init /\ [][NextBus]_vars

SpecBusOff == Init /\ [][NextBusOff]_vars

\* handlers that subscribe a further handler while a publish is in progress
NextBusLive ==
    \/ \E ev \in EventNames, h \in {"ok", "subscribe"} : busOn(ev, h, Plain)
    \/ \E w \in 1..MaxSubscriptions : unsubscribe(w)
    \/ \E ev \in EventNames : dispatch(ev)

SpecBusLive == Init /\ [][NextBusLive]_vars

(***************************************************************************)
(* PatternMatcher.matchSequencePattern, and the events a sequence is fed.  *)
(***************************************************************************)
\* eventsMatch(event1, event2), the expected event carrying no data
eventsMatch(event1, event2) == event1.type = event2.type

\* the for loop of matchSequencePattern from event i on:
\* st = [matches, sequenceIndex (from 0), lastMatchTime]
RECURSIVE sequenceLoop(_, _, _, _)
sequenceLoop(pattern, events, i, st) ==
    IF i > Len(events) \/ st.sequenceIndex >= Len(pattern.sequence) THEN st
    ELSE LET event == events[i]
             expectedEvent == pattern.sequence[st.sequenceIndex + 1]
             gap == event.timestamp - st.lastMatchTime
         IN IF /\ eventsMatch(event, expectedEvent)
               /\ \/ ~pattern.allowGaps
                  \/ gap <= pattern.maxGapSize
                  \/ st.lastMatchTime = 0
            THEN sequenceLoop(pattern, events, i + 1,
                     [matches |-> st.matches + 1,
                      sequenceIndex |-> st.sequenceIndex + 1,
                      lastMatchTime |-> event.timestamp])
            ELSE sequenceLoop(pattern, events, i + 1, st)

\* matchSequencePattern(pattern, data): confidence is matches / length, kept
\* as a fraction; matches means confidence >= 0.8
matchSequencePattern(pattern, events) ==
    IF Len(events) < Len(pattern.sequence)
    THEN [matches |-> FALSE, confidence |-> [num |-> 0, den |-> 1]]
    ELSE LET st == sequenceLoop(pattern, events, 1,
                       [matches |-> 0, sequenceIndex |-> 0, lastMatchTime |-> 0])
         IN [matches |-> 10 * st.matches >= 8 * Len(pattern.sequence),
             confidence |-> [num |-> st.matches, den |-> Len(pattern.sequence)],
             matchedEvents |-> st.matches,
             totalEvents |-> Len(pattern.sequence)]

\* the application observes an event of some type, d after the last one
feedEvent(type, d) ==
    /\ Len(seqData) < MaxFeed
    /\ now' = now + d
    /\ seqData' = Append(seqData, [type |-> type, timestamp |-> now + d])
    /\ seqResult' = <<>>
    /\ UNCHANGED seqPattern
    /\ NoPass /\ lastOp' = NoOp
    /\ UNCHANGED <<patterns, patternOrder, rafQueue, rafLive, attachedSets,
                   listenersHeld, stopped, lastFire>>
    /\ UNCHANGED <<bufVars, busVars, moreVars>>

\* PatternMatcher.match(pattern, {sequence: seqData}, {ignoreCache: true})
matchSequence(allowGaps) ==
    /\ seqPattern' = SequencePattern(allowGaps)
    /\ seqResult' = <<matchSequencePattern(SequencePattern(allowGaps), seqData)>>
    /\ UNCHANGED seqData
    /\ UNCHANGED <<dispVars, bufVars, busVars, moreVars>>

(***************************************************************************)
(* SpecSeq: a three-step sequence, as a registration of the detector and   *)
(* as a pattern given to PatternMatcher, fed the same events.              *)
(***************************************************************************)
NextSeq ==
    \/ registerPattern("a", "sequence")
    \/ \E det \in Detectors : rafQueue = 0 /\ startDetection("a", det)
    \/ \E det \in Detectors : analyze(det)
    \/ \E type \in FeedTypes, d \in FeedSteps : feedEvent(type, d)
    \/ \E allowGaps \in BOOLEAN : matchSequence(allowGaps)

SpecSeq == Init /\ [][NextSeq]_vars

(***************************************************************************)
(* SpecSeqGiven: PatternMatcher.match on a sequence pattern of three or    *)
(* five steps and a whole list of observed events, gaps disallowed (the    *)
(* default).                                                               *)
(***************************************************************************)
\* a sequence pattern with the given steps
StepsPattern(steps, allowGaps) ==
    [type |-> "sequence",
     sequence |-> [i \in DOMAIN steps |-> [type |-> steps[i]]],
     allowGaps |-> allowGaps, maxGapSize |-> MaxGapSize]

\* the application has observed events of these types, GivenSpacing apart
giveSequence(steps, types) ==
    /\ seqData = <<>>
    /\ seqResult = <<>>
    /\ seqData' = [i \in DOMAIN types |->
                      [type |-> types[i], timestamp |-> now + GivenSpacing * i]]
    /\ seqPattern' = StepsPattern(steps, FALSE)
    /\ UNCHANGED seqResult
    /\ UNCHANGED <<dispVars, bufVars, busVars, moreVars>>

\* PatternMatcher.match(pattern, {sequence: seqData}, {ignoreCache: true})
matchGiven ==
    /\ seqData # <<>>
    /\ seqResult = <<>>
    /\ seqResult' = <<matchSequencePattern(seqPattern, seqData)>>
    /\ UNCHANGED <<seqData, seqPattern>>
    /\ UNCHANGED <<dispVars, bufVars, busVars, moreVars>>

NextSeqGiven ==
    \/ \E steps \in StepLists, len \in GivenLengths :
          \E types \in [1..len -> GivenTypes] : giveSequence(steps, types)
    \/ matchGiven

SpecSeqGiven == Init /\ [][NextSeqGiven]_vars

(***************************************************************************)
(* PerformanceMonitor, NativeGestureDetector.setPerformanceMode and        *)
(* HMISystem.handlePerformanceIssue.                                       *)
(***************************************************************************)
oldVars == <<dispVars, bufVars, busVars, seqVars>>

\* Array.prototype.slice(-k)
sliceLast(sq, k) == IF Len(sq) <= k THEN sq ELSE SubSeq(sq, Len(sq) - k + 1, Len(sq))

\* addSample(sample)
addSample(samples, sample) ==
    LET pushed == Append(samples, sample) IN
    IF Len(pushed) > MonitorMaxSamples THEN Tail(pushed) ELSE pushed

\* Math.max(15, sampleRate / 2); the rates reached are 60, 30 and 15, and
\* 15 / 2 is below the floor
reducedRate(rate) ==
    IF rate < 2 * MinSampleRate THEN MinSampleRate ELSE rate \div 2

\* one call of the monitor's measure callback
measureFrame ==
    /\ monFrames < MaxFrames
    /\ monFrames' = monFrames + 1
    /\ monSamples' = addSample(monSamples, monFrames + 1)
    /\ UNCHANGED <<monSampleRate, performanceMode>>
    /\ UNCHANGED <<oldVars, hmiVars, swipeVars, circleVars, mgrVars, touchVars, lateVars>>

\* PerformanceMonitor.enablePerformanceMode
enablePerformanceMode ==
    /\ monSampleRate' = reducedRate(monSampleRate)
    /\ monSamples' = sliceLast(monSamples, KeptSamples)
    /\ UNCHANGED <<monFrames, performanceMode>>
    /\ UNCHANGED <<oldVars, hmiVars, swipeVars, circleVars, mgrVars, touchVars, lateVars>>

\* PerformanceMonitor.disablePerformanceMode
disablePerformanceMode ==
    /\ monSampleRate' = MonitorSampleRate
    /\ UNCHANGED <<monSamples, monFrames, performanceMode>>
    /\ UNCHANGED <<oldVars, hmiVars, swipeVars, circleVars, mgrVars, touchVars, lateVars>>

\* NativeGestureDetector.setPerformanceMode(enabled)
setPerformanceMode(enabled) ==
    /\ performanceMode' = enabled
    /\ UNCHANGED <<monSampleRate, monSamples, monFrames>>
    /\ UNCHANGED <<oldVars, hmiVars, swipeVars, circleVars, mgrVars, touchVars, lateVars>>

\* HMISystem.handlePerformanceIssue(metrics); nothing is subscribed to the
\* 'performance-issue' event it dispatches
handlePerformanceIssue(fps) ==
    IF fps < EmergencyFps THEN setPerformanceMode(TRUE)
    ELSE UNCHANGED vars

(***************************************************************************)
(* SpecPerf: a started detector with one registration, the monitor        *)
(* sampling frames, and performance mode switched on and off.              *)
(***************************************************************************)
NextPerf ==
    \/ monFrames = 0 /\ registerPattern("a", "custom")
    \/ monFrames = 0 /\ rafQueue = 0 /\ startDetection("a", [n \in Names |-> "nomatch"])
    \/ analyze([n \in Names |-> "nomatch"])
    \/ measureFrame
    \/ enablePerformanceMode
    \/ disablePerformanceMode
    \/ setPerformanceMode(FALSE)
    \/ \E fps \in FpsReadings : handlePerformanceIssue(fps)

SpecPerf == Init /\ [][NextPerf]_vars

(***************************************************************************)
(* Malformed pointer events: clientX is missing or not a number.           *)
(***************************************************************************)
MalformedEvent == [clientX |-> NotNumeric, clientY |-> 0]

\* the platform delivers a malformed mousedown to the detector's listeners
malformedMouseDown(d) ==
    /\ evCount < MaxRawEvents
    /\ attachedSets > 0 /\ ~simpleActive
    /\ LET t == now + d
       IN /\ now' = t
          /\ evCount' = evCount + 1
          /\ mouseHistory' = mouseStartListeners(attachedSets, mouseHistory,
                                                 MalformedEvent, t)
          /\ nativeArrived' = <<NativeSample(MalformedEvent, t)>>
    /\ pointerUp' = FALSE
    /\ UNCHANGED <<simpleActive, simpleHistory, lastSampleTime, simpleArrived>>
    /\ NoPass /\ lastOp' = NoOp
    /\ UNCHANGED <<patterns, patternOrder, rafQueue, rafLive, attachedSets,
                   listenersHeld, stopped, lastFire>>
    /\ UNCHANGED <<busVars, seqVars, moreVars>>

\* the platform delivers a malformed mousemove to the detector's listeners
malformedMouseMove(d) ==
    /\ evCount < MaxRawEvents
    /\ attachedSets > 0 /\ ~simpleActive
    /\ LET t == now + d
       IN /\ now' = t
          /\ evCount' = evCount + 1
          /\ mouseHistory' = mouseMoveListeners(attachedSets, mouseHistory,
                                                MalformedEvent, t)
          /\ nativeArrived' = mouseMoveListeners(attachedSets, nativeArrived,
                                                 MalformedEvent, t)
    /\ UNCHANGED <<simpleActive, simpleHistory, lastSampleTime, simpleArrived,
                   pointerUp>>
    /\ NoPass /\ lastOp' = NoOp
    /\ UNCHANGED <<patterns, patternOrder, rafQueue, rafLive, attachedSets,
                   listenersHeld, stopped, lastFire>>
    /\ UNCHANGED <<busVars, seqVars, moreVars>>

(***************************************************************************)
(* SpecRaw: a started detector that is delivered well-formed and           *)
(* malformed pointer events in any order.                                  *)
(***************************************************************************)
NextRaw ==
    \/ \E det \in Detectors : evCount = 0 /\ rafQueue = 0 /\ startDetection(NoName, det)
    \/ \E d \in EventSteps : evCount < MaxRawEvents /\ mouseDownEvent(d)
    \/ \E d \in EventSteps : evCount < MaxRawEvents /\ mouseMoveEvent(d)
    \/ \E d \in EventSteps : malformedMouseDown(d)
    \/ \E d \in EventSteps : malformedMouseMove(d)

SpecRaw == Init /\ [][NextRaw]_vars

(***************************************************************************)
(* Pointer-up.  NativeGestureDetector.handleMouseEnd has an empty body;    *)
(* GestureDetector.handleMouseUp calls detect(), which changes nothing     *)
(* when no gesture is registered.                                          *)
(***************************************************************************)
\* NativeGestureDetector.handleMouseEnd
handleMouseEnd(hist, e) == hist

\* the platform delivers mouseup to every attached listener
mouseUpEvent(d) ==
    /\ evCount < MaxRawEvents
    /\ attachedSets > 0 \/ simpleActive
    /\ now' = now + d
    /\ evCount' = evCount + 1
    /\ mouseHistory' = IF attachedSets > 0
                       THEN handleMouseEnd(mouseHistory, PointerEvent(evCount + 1))
                       ELSE mouseHistory
    /\ pointerUp' = TRUE
    /\ UNCHANGED <<simpleActive, simpleHistory, lastSampleTime, nativeArrived,
                   simpleArrived>>
    /\ NoPass /\ lastOp' = NoOp
    /\ UNCHANGED <<patterns, patternOrder, rafQueue, rafLive, attachedSets,
                   listenersHeld, stopped, lastFire>>
    /\ UNCHANGED <<busVars, seqVars, moreVars>>

(***************************************************************************)
(* SpecPointer: a started detector that is delivered pointer-down, -move   *)
(* and -up events in any order.                                            *)
(***************************************************************************)
NextPointer ==
    \/ \E det \in Detectors : evCount = 0 /\ rafQueue = 0 /\ startDetection(NoName, det)
    \/ \E d \in EventSteps : evCount < MaxRawEvents /\ mouseDownEvent(d)
    \/ \E d \in EventSteps : evCount < MaxRawEvents /\ mouseMoveEvent(d)
    \/ \E d \in EventSteps : mouseUpEvent(d)

SpecPointer == Init /\ [][NextPointer]_vars

(***************************************************************************)
(* SpecShared: two custom registrations whose detectors may change the     *)
(* array they are handed, and pointer samples arriving between passes.     *)
(***************************************************************************)
NextShared ==
    \/ \E n \in Names : n \notin Registered /\ registerPattern(n, "custom")
    \/ \E det \in Detectors : evCount = 0 /\ rafQueue = 0 /\ startDetection(NoName, det)
    \/ \E d \in EventSteps : evCount < MaxRawEvents /\ mouseDownEvent(d)
    \/ \E d \in EventSteps : evCount < MaxRawEvents /\ mouseMoveEvent(d)
    \/ \E det \in [Names -> MutatingOutcomes] : analyze(det)

SpecShared == Init /\ [][NextShared]_vars

(***************************************************************************)
(* SpecLine: a registration made with mouseLine, its handler, and a        *)
(* pointer that is pressed and moved along a straight line.                *)
(***************************************************************************)
NextLine ==
    \/ "a" \notin Registered /\ registerPattern("a", "mouse_line")
    \/ addGestureHandler("a", "ok")
    \/ \E det \in Detectors : evCount = 0 /\ rafQueue = 0 /\ startDetection(NoName, det)
    \/ \E d \in EventSteps : evCount < MaxRawEvents /\ mouseDownEvent(d)
    \/ \E d \in EventSteps : evCount < MaxRawEvents /\ mouseMoveEvent(d)
    \/ \E det \in Detectors : analyze(det)

SpecLine == Init /\ [][NextLine]_vars

(***************************************************************************)
(* The handle startDetection returns: pause and resume.  HMISystem's       *)
(* pauseDetection and resumeDetection call the detector's methods of the   *)
(* same names, which NativeGestureDetector does not define.                *)
(***************************************************************************)
HandleCall(op) == [op |-> op, name |-> NoName, existed |-> FALSE, threw |-> TRUE]

\* handle.pause(): this.pauseDetection is not a function
pauseDetection ==
    /\ attachedSets > 0
    /\ paused' = TRUE
    /\ lastOp' = HandleCall("pause")
    /\ NoPass
    /\ UNCHANGED <<patterns, patternOrder, rafQueue, rafLive, attachedSets,
                   listenersHeld, now, stopped, lastFire>>
    /\ UNCHANGED <<bufVars, busVars, seqVars, monVars, swipeVars, circleVars, mgrVars, touchVars, lateVars>>

\* handle.resume(): this.resumeDetection is not a function
resumeDetection ==
    /\ attachedSets > 0
    /\ paused' = FALSE
    /\ lastOp' = HandleCall("resume")
    /\ NoPass
    /\ UNCHANGED <<patterns, patternOrder, rafQueue, rafLive, attachedSets,
                   listenersHeld, now, stopped, lastFire>>
    /\ UNCHANGED <<bufVars, busVars, seqVars, monVars, swipeVars, circleVars, mgrVars, touchVars, lateVars>>

(***************************************************************************)
(* SpecPause: one registration, detection started, and the handle's        *)
(* pause and resume called between frames.                                 *)
(***************************************************************************)
NextPause ==
    \/ registerPattern("a", "custom")
    \/ addGestureHandler("a", "ok")
    \/ \E det \in Detectors : rafQueue = 0 /\ startDetection("a", det)
    \/ \E det \in Detectors : analyze(det)
    \/ advanceClock(100)
    \/ pauseDetection
    \/ resumeDetection

SpecPause == Init /\ [][NextPause]_vars

(***************************************************************************)
(* detectSwipe.  Coordinates are integers, so the distance is compared by  *)
(* its square and the angle atan2(dy, dx) * 180 / PI is kept as the vector *)
(* <<dx, dy>> it is the angle of: its four buckets are then exact          *)
(* comparisons (the angle of a diagonal is exactly 45, 135, -135 or -45).  *)
(***************************************************************************)
Abs(v) == IF v < 0 THEN 0 - v ELSE v

TimedPoint(pt, t) == [x |-> pt.x, y |-> pt.y, timestamp |-> t]

\* distance(p1, p2), squared
distanceSquared(p1, p2) == (p1.x - p2.x) * (p1.x - p2.x) + (p1.y - p2.y) * (p1.y - p2.y)

\* calculateAngle(start, end)
calculateAngle(start, end) == [dx |-> end.x - start.x, dy |-> end.y - start.y]

\* a bucketing for a y axis that points up
angleToDirectionYUp(angle) ==
    LET dx == angle.dx
        dy == angle.dy
    IN IF (dx = 0 /\ dy = 0) \/ (dx > 0 /\ 0 - dx <= dy /\ dy < dx) THEN "right"
       ELSE IF dy > 0 /\ 0 - dy < dx /\ dx <= dy THEN "up"
       ELSE IF dx < 0 /\ dx < dy /\ dy <= 0 - dx THEN "left"
       ELSE "down"

\* angleToDirection(angle): normalized < 45 or >= 315 is right, < 135 down,
\* < 225 left, else up
angleToDirection(angle) ==
    LET dx == angle.dx
        dy == angle.dy
    IN IF (dx = 0 /\ dy = 0) \/ (dx > 0 /\ 0 - dx <= dy /\ dy < dx) THEN "right"
       ELSE IF dy > 0 /\ 0 - dy < dx /\ dx <= dy THEN "down"
       ELSE IF dx < 0 /\ dx < dy /\ dy <= 0 - dx THEN "left"
       ELSE "up"

\* detectSwipe(points, options); distance is given by its square, and
\* velocity and angle are functions of the fields kept
detectSwipe(points, options) ==
    IF Len(points) < 2 THEN [matches |-> FALSE]
    ELSE LET start == points[1]
             end == points[Len(points)]
             duration == end.timestamp - start.timestamp
         IN IF \/ distanceSquared(start, end) < options.minDistance * options.minDistance
               \/ duration > options.maxTime
            THEN [matches |-> FALSE]
            ELSE LET detectedDirection == angleToDirection(calculateAngle(start, end))
                 IN [matches |-> (options.direction = NoDirection
                                  \/ detectedDirection = options.direction),
                     direction |-> detectedDirection,
                     distanceSquared |-> distanceSquared(start, end),
                     duration |-> duration]

\* the point histories given to the detector: one, two or three points
SwipeHistories ==
    {<<TimedPoint(p, 0)>> : p \in GridPoints}
    \cup {<<TimedPoint(p, 0), TimedPoint(q, d)>> :
             p \in GridPoints, q \in GridPoints, d \in SwipeDurations}
    \cup {<<TimedPoint(p, 0), TimedPoint(m, 50), TimedPoint(q, 100)>> :
             p \in GridPoints, m \in MidPoints, q \in GridPoints}

\* a history and the options of a swipe registration are chosen
swipeGive(points, options) ==
    /\ swipeInput = <<>>
    /\ swipeInput' = <<[points |-> points, options |-> options]>>
    /\ swipeResult' = <<>>
    /\ UNCHANGED <<oldVars, monVars, hmiVars, circleVars, mgrVars, touchVars, lateVars>>

\* the detector is evaluated on them, a first and a second time
swipeDetect ==
    /\ swipeInput # <<>>
    /\ Len(swipeResult) < 2
    /\ swipeResult' = Append(swipeResult,
                             detectSwipe(swipeInput[1].points, swipeInput[1].options))
    /\ UNCHANGED swipeInput
    /\ UNCHANGED <<oldVars, monVars, hmiVars, circleVars, mgrVars, touchVars, lateVars>>

NextSwipe ==
    \/ \E points \in SwipeHistories, options \in SwipeOptions : swipeGive(points, options)
    \/ swipeDetect

SpecSwipe == Init /\ [][NextSwipe]_vars

(***************************************************************************)
(* detectMouseCircle.  Points are whole pixels.  The centroid is sum / n,  *)
(* so n times the distance of a point to it is the square root of an       *)
(* integer; the test |distance - radius| <= radius * tolerance is made on  *)
(* squares, exactly, and the reported radius is kept in tenths of a pixel. *)
(***************************************************************************)
\* 1000 * cos of an angle given in steps of 7.5 degrees
cosQuadrant(u) ==
    CASE u = 0 -> 1000 [] u = 1 -> 991 [] u = 2 -> 966 [] u = 3 -> 924
      [] u = 4 -> 866 [] u = 5 -> 793 [] u = 6 -> 707 [] u = 7 -> 609
      [] u = 8 -> 500 [] u = 9 -> 383 [] u = 10 -> 259 [] u = 11 -> 131
      [] u = 12 -> 0

cos1000(u) ==
    LET v == u % 48
        w == IF v > 24 THEN 48 - v ELSE v
    IN IF w > 12 THEN 0 - cosQuadrant(24 - w) ELSE cosQuadrant(w)

sin1000(u) == cos1000(u + 36)

\* radius * cos(angle), to the nearest pixel
scaled(radius, c) ==
    IF c < 0 THEN 0 - ((radius * (0 - c) + 500) \div 1000)
    ELSE (radius * c + 500) \div 1000

\* HMITestSuite.generateCirclePoints(center, radius, count)
generateCirclePoints(center, radius, count) ==
    [i \in 1..count |->
        [x |-> center.x + scaled(radius, cos1000((i - 1) * (48 \div count))),
         y |-> center.y + scaled(radius, sin1000((i - 1) * (48 \div count)))]]

\* the same points with the first k of them moved to the centre
withDisplaced(points, center, k) ==
    [i \in DOMAIN points |-> IF i <= k THEN center ELSE points[i]]

\* the largest k with k * k <= x, for lo * lo <= x < (hi + 1) * (hi + 1)
RECURSIVE isqrtIn(_, _, _)
isqrtIn(x, lo, hi) ==
    IF lo >= hi THEN lo
    ELSE LET mid == (lo + hi + 1) \div 2 IN
         IF mid * mid <= x THEN isqrtIn(x, mid, hi) ELSE isqrtIn(x, lo, mid - 1)

isqrt(x) == isqrtIn(x, 0, 46340)

RECURSIVE sumOver(_, _, _)
sumOver(points, i, acc) ==
    IF i > Len(points) THEN acc
    ELSE sumOver(points, i + 1, [x |-> acc.x + points[i].x, y |-> acc.y + points[i].y])

\* a centre taken from the first point alone
calculateCentroidFirst(points) ==
    [x |-> Len(points) * points[1].x, y |-> Len(points) * points[1].y]

\* calculateCentroid(points), as the sum: the centroid is sum / points.length
calculateCentroid(points) == sumOver(points, 1, [x |-> 0, y |-> 0])

\* (points.length * distance(point, center)) squared
scaledDistanceSquared(point, sum, n) ==
    (n * point.x - sum.x) * (n * point.x - sum.x)
       + (n * point.y - sum.y) * (n * point.y - sum.y)

\* Math.abs(distance - radius) <= radius * tolerance
withinTolerance(point, sum, n, radius, tolerance) ==
    LET d2 == scaledDistanceSquared(point, sum, n) * tolerance.den * tolerance.den
        lo == n * radius * (tolerance.den - tolerance.num)
        hi == n * radius * (tolerance.den + tolerance.num)
    IN lo * lo <= d2 /\ d2 <= hi * hi

\* distance(point, center) in tenths of a pixel
distanceTenths(point, sum, n) == isqrt(100 * scaledDistanceSquared(point, sum, n)) \div n

\* the for loop of detectMouseCircle: acc = [radiusSum, validPoints]
RECURSIVE circleLoop(_, _, _, _, _)
circleLoop(points, i, sum, options, acc) ==
    IF i > Len(points) THEN acc
    ELSE circleLoop(points, i + 1, sum, options,
            IF withinTolerance(points[i], sum, Len(points), options.radius,
                               options.tolerance)
            THEN [radiusSum |-> acc.radiusSum
                                  + distanceTenths(points[i], sum, Len(points)),
                  validPoints |-> acc.validPoints + 1]
            ELSE acc)

\* detectMouseCircle(points, options): confidence is the fraction
\* validPoints / points.length, radius is in tenths and NotNumeric for 0 / 0
detectMouseCircle(points, options) ==
    IF Len(points) < MinCirclePoints THEN [matches |-> FALSE]
    ELSE LET center == calculateCentroid(points)
             acc == circleLoop(points, 1, center, options,
                               [radiusSum |-> 0, validPoints |-> 0])
         IN [matches |-> 10 * acc.validPoints >= 7 * Len(points),
             confidence |-> [num |-> acc.validPoints, den |-> Len(points)],
             radius |-> IF acc.validPoints = 0 THEN NotNumeric
                        ELSE acc.radiusSum \div acc.validPoints,
             center |-> center,
             metadata |-> [points |-> Len(points)]]

\* points evenly distributed on a circle, k of them displaced, are given to
\* a circle registration of that radius
circleGive(center, radius, count, k, tolerance) ==
    /\ circleInput = <<>>
    /\ circleInput' =
          <<[points |-> withDisplaced(generateCirclePoints(center, radius, count),
                                      center, k),
             options |-> [radius |-> radius, tolerance |-> tolerance],
             truth |-> [center |-> center, radius |-> radius, displaced |-> k]]>>
    /\ UNCHANGED circleResult
    /\ UNCHANGED <<oldVars, monVars, hmiVars, swipeVars, mgrVars, touchVars, lateVars>>

circleDetect ==
    /\ circleInput # <<>>
    /\ circleResult = <<>>
    /\ circleResult' = <<detectMouseCircle(circleInput[1].points, circleInput[1].options)>>
    /\ UNCHANGED circleInput
    /\ UNCHANGED <<oldVars, monVars, hmiVars, swipeVars, mgrVars, touchVars, lateVars>>

NextCircle ==
    \/ \E center \in CircleCenters, radius \in CircleRadii, count \in CircleCounts,
          k \in Displaced, tolerance \in Tolerances :
             circleGive(center, radius, count, k, tolerance)
    \/ circleDetect

SpecCircle == Init /\ [][NextCircle]_vars

(***************************************************************************)
(* The simple HMIManager of the documentation and its GestureDetector:     *)
(* contexts, registration and the detect() pass.                           *)
(***************************************************************************)
\* this.contexts.get(this.activeContext) || []
contextGestures(contexts, name) ==
    IF contexts[name].known THEN contexts[name].gestures ELSE {}

\* HMIManager._updateActiveGestures over the gestures registered so far
updateActiveGestures(gestures, listed) ==
    [n \in GestureNames |->
        IF gestures[n].registered
        THEN [gestures[n] EXCEPT !.enabled = (n \in listed)]
        ELSE gestures[n]]

mgrUnchanged ==
    UNCHANGED <<oldVars, monVars, hmiVars, swipeVars, circleVars, touchVars, lateVars>>

\* HMIManager.addContext(name, gestures)
addContext(name, gestures) ==
    /\ mgrContexts' = [mgrContexts EXCEPT ![name] = [known |-> TRUE, gestures |-> gestures]]
    /\ mgrFired' = {}
    /\ UNCHANGED <<activeContext, mgrGestures, contextSet, contextListed, mgrActive>>
    /\ mgrUnchanged

\* HMIManager.setContext(name)
setContext(name) ==
    /\ activeContext' = name
    /\ mgrGestures' = updateActiveGestures(mgrGestures, contextGestures(mgrContexts, name))
    /\ contextSet' = TRUE
    /\ contextListed' = contextGestures(mgrContexts, name)
    /\ mgrFired' = {}
    /\ UNCHANGED <<mgrContexts, mgrActive>>
    /\ mgrUnchanged

\* HMIManager._registerGesture -> GestureDetector.register(name, detector, callback)
register(name) ==
    /\ mgrGestures' = [mgrGestures EXCEPT ![name] =
                          [registered |-> TRUE, enabled |-> TRUE, lastTriggered |-> 0]]
    /\ mgrFired' = {}
    /\ UNCHANGED <<mgrContexts, activeContext, contextSet, contextListed, mgrActive>>
    /\ mgrUnchanged

\* HMIManager.start -> GestureDetector.start; its first detect() pass is the
\* detect action
mgrStart ==
    /\ ~mgrActive
    /\ mgrActive' = TRUE
    /\ mgrFired' = {}
    /\ UNCHANGED <<mgrContexts, activeContext, mgrGestures, contextSet, contextListed>>
    /\ mgrUnchanged

\* GestureDetector.stop
mgrStop ==
    /\ mgrActive
    /\ mgrActive' = FALSE
    /\ mgrFired' = {}
    /\ UNCHANGED <<mgrContexts, activeContext, mgrGestures, contextSet, contextListed>>
    /\ mgrUnchanged

\* the gestures whose callback a detect() pass calls; detected is the set of
\* gestures whose detector reports { detected: true } on the histories
firing(gestures, detected, t) ==
    {n \in GestureNames :
        /\ gestures[n].registered
        /\ gestures[n].enabled
        /\ ~(DateNow(t) - gestures[n].lastTriggered < DefaultCooldown)
        /\ n \in detected}

\* GestureDetector.detect(), from detectLoop or handleMouseMove
detect(detected) ==
    /\ mgrActive
    /\ mgrFired' = firing(mgrGestures, detected, now)
    /\ mgrGestures' = [n \in GestureNames |->
                          IF n \in firing(mgrGestures, detected, now)
                          THEN [mgrGestures[n] EXCEPT !.lastTriggered = DateNow(now)]
                          ELSE mgrGestures[n]]
    /\ UNCHANGED <<mgrContexts, activeContext, contextSet, contextListed, mgrActive>>
    /\ mgrUnchanged

NextMgr ==
    \/ \E name \in ContextNames \ {"default"}, gestures \in ContextLists :
          addContext(name, gestures)
    \/ \E name \in ContextNames : setContext(name)
    \/ \E name \in GestureNames : register(name)
    \/ mgrStart
    \/ mgrStop
    \/ \E detected \in SUBSET GestureNames : detect(detected)
    \/ advanceClock(DefaultCooldown)

SpecMgr == Init /\ [][NextMgr]_vars

(***************************************************************************)
(* Touch contacts and pinch.  A touch event carries e.touches, the list of *)
(* the contacts that are active after it; each entry also remembers where  *)
(* the contact was at the latest touchstart (began), which no handler      *)
(* reads.  Distances are kept as squares, a scale as the pair of squared   *)
(* distances [num2, den2] it is the ratio of.                              *)
(***************************************************************************)
TouchAt(touch) == [x |-> touch.clientX, y |-> touch.clientY]

ActiveIds(list) == {list[i].identifier : i \in DOMAIN list}

Occupied(list, p) == \E i \in DOMAIN list : TouchAt(list[i]) = p

pointDistanceSquared(p1, p2) ==
    (p1.x - p2.x) * (p1.x - p2.x) + (p1.y - p2.y) * (p1.y - p2.y)

\* NativeGestureDetector.handleTouchStart
handleTouchStart(hist, list, t) ==
    [i \in DOMAIN list |->
        [id |-> list[i].identifier, start |-> TouchAt(list[i]),
         current |-> TouchAt(list[i]), timestamp |-> t]]

\* NativeGestureDetector.handleTouchMove
handleTouchMove(hist, list) ==
    [i \in DOMAIN hist |->
        IF hist[i].id \in ActiveIds(list)
        THEN LET j == CHOOSE k \in DOMAIN list : list[k].identifier = hist[i].id
             IN [hist[i] EXCEPT !.current = TouchAt(list[j])]
        ELSE hist[i]]

\* NativeGestureDetector.handleTouchEnd
handleTouchEnd(hist, list) == SelectSeq(hist, LAMBDA h : h.id \in ActiveIds(list))

\* GestureDetector.handleTouchStart and handleTouchMove
simpleHandleTouch(hist, list, t) ==
    [i \in DOMAIN list |->
        [id |-> list[i].identifier, x |-> list[i].clientX, y |-> list[i].clientY,
         time |-> DateNow(t)]]

\* GestureDetector.handleTouchEnd: detect(), with no gesture registered
simpleHandleTouchEnd(hist, list) == hist

\* Math.abs(1 - scale) >= threshold for scale = sqrt(num2) / sqrt(den2);
\* 0 / 0 is NaN and compares false, x / 0 is Infinity
scaleChangeAtLeast(num2, den2, th) ==
    IF den2 = 0 THEN num2 > 0
    ELSE IF num2 >= den2
         THEN th.den * th.den * num2 >= (th.den + th.num) * (th.den + th.num) * den2
         ELSE /\ th.num <= th.den
              /\ th.den * th.den * num2 <= (th.den - th.num) * (th.den - th.num) * den2

\* Math.abs(scale - 1) > minScale
scaleChangeAbove(num2, den2, th) ==
    IF den2 = 0 THEN num2 > 0
    ELSE IF num2 >= den2
         THEN th.den * th.den * num2 > (th.den + th.num) * (th.den + th.num) * den2
         ELSE /\ th.num < th.den
              /\ th.den * th.den * num2 < (th.den - th.num) * (th.den - th.num) * den2

\* NativeGestureDetector.detectPinch(touches, options)
detectPinch(hist, options) ==
    IF Len(hist) # 2 THEN [matches |-> FALSE]
    ELSE LET initial2 == pointDistanceSquared(hist[1].start, hist[2].start)
             current2 == pointDistanceSquared(hist[1].current, hist[2].current)
         IN [matches |-> scaleChangeAtLeast(current2, initial2, options.threshold),
             scale |-> [num2 |-> current2, den2 |-> initial2],
             isPinchIn |-> current2 < initial2,
             isPinchOut |-> current2 > initial2]

\* PatternDetectors.pinch(history, touchHistory, options)
simplePinch(hist, options) ==
    IF Len(hist) # 2 THEN [matches |-> FALSE]
    ELSE LET current2 == pointDistanceSquared(hist[1], hist[2])
             initial2 == PinchPlaceholder * PinchPlaceholder
         IN [matches |-> scaleChangeAbove(current2, initial2, options.minScale),
             scale |-> [num2 |-> current2, den2 |-> initial2]]

touchUnchanged ==
    UNCHANGED <<oldVars, monVars, hmiVars, swipeVars, circleVars, mgrVars, lateVars>>

\* what the listeners of the two detectors do with a touchstart or touchmove
TouchDelivered(list, native, simple) ==
    /\ touches' = list
    /\ touchHistory' = IF attachedSets > 0 THEN native ELSE touchHistory
    /\ simpleTouchHistory' = IF simpleActive THEN simple ELSE simpleTouchHistory
    /\ pinchResult' = <<>>
    /\ touchUnchanged

\* a contact starts at p
touchStartEvent(id, p) ==
    /\ attachedSets > 0 \/ simpleActive
    /\ id \notin ActiveIds(touches)
    /\ ~Occupied(touches, p)
    /\ LET added == Append(touches, [identifier |-> id, clientX |-> p.x,
                                     clientY |-> p.y, began |-> p])
           list == [i \in DOMAIN added |-> [added[i] EXCEPT !.began = TouchAt(added[i])]]
       IN TouchDelivered(list, handleTouchStart(touchHistory, list, now),
                         simpleHandleTouch(simpleTouchHistory, list, now))

\* the contact id moves to p
touchMoveEvent(id, p) ==
    /\ attachedSets > 0 \/ simpleActive
    /\ id \in ActiveIds(touches)
    /\ ~Occupied(touches, p)
    /\ LET list == [i \in DOMAIN touches |->
                      IF touches[i].identifier = id
                      THEN [touches[i] EXCEPT !.clientX = p.x, !.clientY = p.y]
                      ELSE touches[i]]
       IN TouchDelivered(list, handleTouchMove(touchHistory, list),
                         simpleHandleTouch(simpleTouchHistory, list, now))

\* the contact id ends
touchEndEvent(id) ==
    /\ attachedSets > 0 \/ simpleActive
    /\ id \in ActiveIds(touches)
    /\ LET list == SelectSeq(touches, LAMBDA c : c.identifier # id)
       IN TouchDelivered(list, handleTouchEnd(touchHistory, list),
                         simpleHandleTouchEnd(simpleTouchHistory, list))

\* a pinch registration of each detector is evaluated on its touch history
pinchDetect(th) ==
    /\ pinchResult = <<>>
    /\ attachedSets > 0 \/ simpleActive
    /\ pinchResult' =
          <<[threshold |-> th,
             native |-> detectPinch(touchHistory, [threshold |-> th]),
             simple |-> simplePinch(simpleTouchHistory, [minScale |-> th])]>>
    /\ UNCHANGED <<touches, touchHistory, simpleTouchHistory>>
    /\ touchUnchanged

NextTouch ==
    \/ \E det \in Detectors :
          touches = <<>> /\ rafQueue = 0 /\ startDetection(NoName, det)
    \/ touches = <<>> /\ simpleStart
    \/ \E id \in TouchIds, p \in TouchPoints : touchStartEvent(id, p)
    \/ \E id \in TouchIds, p \in TouchPoints : touchMoveEvent(id, p)
    \/ \E id \in TouchIds : touchEndEvent(id)
    \/ \E th \in PinchThresholds : pinchDetect(th)

SpecTouch == Init /\ [][NextTouch]_vars

(***************************************************************************)
(* SpecDetach: startDetection called once or more, stopDetection(), and    *)
(* pointer and touch events delivered by the target before and after.      *)
(***************************************************************************)
\* no gesture is registered, so no detector is called by a pass
NoDetector == [n \in Names |-> "nomatch"]

NextDetach ==
    \/ startDetection(NoName, NoDetector)
    \/ stopDetection(NoName)
    \/ \E d \in EventSteps : evCount < MaxRawEvents /\ mouseDownEvent(d)
    \/ \E d \in EventSteps : evCount < MaxRawEvents /\ mouseMoveEvent(d)
    \/ \E id \in {1, 2}, p \in TouchPoints : touchStartEvent(id, p)
    \/ \E id \in {1, 2}, p \in TouchPoints : touchMoveEvent(id, p)
    \/ \E id \in {1, 2} : touchEndEvent(id)

SpecDetach == Init /\ [][NextDetach]_vars

(***************************************************************************)
(* HMISystem: init, the context registries, and detection control.  A      *)
(* registry is a BaseRegistry whose own init() has completed; no listener  *)
(* is subscribed to 'context-changed', so the dispatchEvent call of        *)
(* setActiveContext finds no listener and returns false.                   *)
(***************************************************************************)
\* init(), up to `await this.initializeCoreComponents(options)`: the body of
\* initializeCoreComponents has no await and runs within the call
initCall ==
    /\ ~initialized
    /\ coreCreated < MaxInits
    /\ coreCreated' = coreCreated + 1
    /\ initPending' = initPending + 1
    /\ contextReturned' = NoName
    /\ UNCHANGED <<initialized, globalHandlerSets, monitorLoops>>
    /\ UNCHANGED <<sysRegistries, registryActive, sysActiveContext, detectionActive>>
    /\ UNCHANGED <<oldVars, preVars, builderCalls>>

\* the rest of an init() call, run when its await resumes:
\* setupGlobalHandlers, startPerformanceMonitoring, initialized = true
initResume ==
    /\ initPending > 0
    /\ initPending' = initPending - 1
    /\ globalHandlerSets' = globalHandlerSets + 1
    /\ monitorLoops' = monitorLoops + 1
    /\ initialized' = TRUE
    /\ contextReturned' = NoName
    /\ UNCHANGED coreCreated
    /\ UNCHANGED <<sysRegistries, registryActive, sysActiveContext, detectionActive>>
    /\ UNCHANGED <<oldVars, preVars, builderCalls>>

\* BaseRegistry.activate / deactivate, called on the registries in S
activate(act, S) == [r \in RegistryNames |-> IF r \in S THEN TRUE ELSE act[r]]

deactivate(act, S) == [r \in RegistryNames |-> IF r \in S THEN FALSE ELSE act[r]]

\* registerRegistry(name, registryInstance) with a new, inactive instance
registerRegistry(r) ==
    /\ sysRegistries' = sysRegistries \cup {r}
    /\ registryActive' = [registryActive EXCEPT ![r] = FALSE]
    /\ contextReturned' = NoName
    /\ UNCHANGED <<sysActiveContext, detectionActive>>
    /\ UNCHANGED <<oldVars, preVars, builderCalls, initVars>>

\* the assignments of setActiveContext(contextName)
switchContext(context, act, c) ==
    IF c \notin sysRegistries THEN [context |-> context, active |-> act, found |-> FALSE]
    ELSE [context |-> c,
          active |-> activate(deactivate(act, {context} \cap sysRegistries), {c}),
          found |-> TRUE]

\* setActiveContext(contextName); before init() has created the event
\* registry, dispatchEvent throws and the call returns nothing
setActiveContext(c) ==
    /\ LET sw == switchContext(sysActiveContext, registryActive, c)
       IN /\ sysActiveContext' = sw.context
          /\ registryActive' = sw.active
          /\ contextReturned' = IF sw.found /\ coreCreated > 0 THEN c ELSE NoName
    /\ UNCHANGED <<sysRegistries, detectionActive>>
    /\ UNCHANGED <<oldVars, preVars, builderCalls, initVars>>

\* HMISystem.startDetection(contextName)
sysStartDetection(cn) ==
    /\ coreCreated > 0
    /\ ~detectionActive
    /\ startDetectionCall(NoName, NoDetector)
    /\ LET sw == IF cn = NoName
                 THEN [context |-> sysActiveContext,
                       active |-> activate(registryActive, sysRegistries)]
                 ELSE switchContext(sysActiveContext, registryActive, cn)
       IN /\ sysActiveContext' = sw.context
          /\ registryActive' = sw.active
    /\ detectionActive' = TRUE
    /\ contextReturned' = NoName
    /\ UNCHANGED sysRegistries
    /\ UNCHANGED <<preVars, builderCalls, initVars>>

\* HMISystem.stopDetection()
sysStopDetection ==
    /\ detectionActive
    /\ stopDetectionCall(NoName)
    /\ registryActive' = deactivate(registryActive, sysRegistries)
    /\ detectionActive' = FALSE
    /\ contextReturned' = NoName
    /\ UNCHANGED <<sysRegistries, sysActiveContext>>
    /\ UNCHANGED <<preVars, builderCalls, initVars>>

(***************************************************************************)
(* SpecContext: registries registered, one init(), and start, stop and     *)
(* context-switch calls in any order.                                      *)
(***************************************************************************)
NextContext ==
    \/ coreCreated = 0 /\ initCall
    \/ initResume
    \/ \E r \in RegistryNames : r \notin sysRegistries /\ registerRegistry(r)
    \/ \E c \in RegistryNames : setActiveContext(c)
    \/ \E cn \in RegistryNames \cup {NoName} : sysStartDetection(cn)
    \/ sysStopDetection

SpecContext == Init /\ [][NextContext]_vars

(***************************************************************************)
(* SpecInit: init() called once or more, also before an earlier call has   *)
(* resumed, with registries registered and contexts switched around it.    *)
(***************************************************************************)
NextInit ==
    \/ initCall
    \/ initResume
    \/ \E r \in RegistryNames : r \notin sysRegistries /\ registerRegistry(r)
    \/ \E c \in RegistryNames : setActiveContext(c)

SpecInit == Init /\ [][NextInit]_vars

(***************************************************************************)
(* SpecBuffer: both detectors listen on the same target and the pointer    *)
(* is sampled at a fixed rate.                                             *)
(***************************************************************************)
NextBuffer ==
    \/ \E det \in Detectors : evCount = 0 /\ startDetection(NoName, det)
    \/ evCount = 0 /\ simpleStart
    \/ \E d \in EventSteps : mouseDownEvent(d)
    \/ \E d \in EventSteps : mouseMoveEvent(d)

SpecBuffer == Init /\ [][NextBuffer]_vars

(***************************************************************************)
(* Reading a pass log.                                                     *)
(***************************************************************************)
LogHas(log, k, n) == \E i \in DOMAIN log : log[i].k = k /\ log[i].n = n

\* the handlers of the registration fired at position f all ran, in order,
\* and the gesturedetected event followed
RanAllHandlers(log, f) ==
    /\ f + log[f].i + 1 <= Len(log)
    /\ \A j \in 1..log[f].i :
          log[f + j].k = "call" /\ log[f + j].n = log[f].n /\ log[f + j].i = j
    /\ log[f + log[f].i + 1].k = "event"
    /\ log[f + log[f].i + 1].n = log[f].n

\* the pass reached registration n: it skipped it as inactive or ran its detector
Visited(log, n) == LogHas(log, "skip", n) \/ LogHas(log, "detect", n)

OrderIndex(n) == CHOOSE p \in DOMAIN patternOrder : patternOrder[p] = n

(***************************************************************************)
(* SpecRepeat: one registration whose detector is a function of the        *)
(* pointer history, a pointer that is pressed and moved, and the clock.    *)
(***************************************************************************)
\* gesture(name).custom(mouse => this.detectSwipe(mouse, {minDistance: 2, maxTime: 1000}))
RepeatOptions == [direction |-> NoDirection, minDistance |-> 2, maxTime |-> 1000]

\* what the detection function returns for the current pointer history
HistoryDetector ==
    [n \in Names |-> IF detectSwipe(mouseHistory, RepeatOptions).matches
                     THEN "match" ELSE "nomatch"]

NextRepeat ==
    \/ "a" \notin Registered /\ registerPattern("a", "custom")
    \/ addGestureHandler("a", "ok")
    \/ \E ms \in CooldownChoices : rafQueue = 0 /\ setGestureCooldown("a", ms)
    \/ rafQueue = 0 /\ startDetection(NoName, HistoryDetector)
    \/ \E d \in EventSteps : evCount < MaxRawEvents /\ mouseDownEvent(d)
    \/ \E d \in EventSteps : evCount < MaxRawEvents /\ mouseMoveEvent(d)
    \/ analyze(HistoryDetector)
    \/ \E d \in ClockSteps : advanceClock(d)

SpecRepeat == Init /\ [][NextRepeat]_vars

(***************************************************************************)
(* C1. Cooldown: after a registration has fired at t1, a match at a time   *)
(* t2 with t2 - t1 < cooldown invokes no handler and publishes nothing,    *)
(* and a match whose guards hold at a time with now - t1 >= cooldown fires *)
(* again.  (SpecCooldown)                                                  *)
(***************************************************************************)
C1_Cooldown ==
    [][\A n \in Names :
         (n \in Registered /\ lastFire[n] >= 0 /\ tickLog' # <<>>) =>
            /\ now - lastFire[n] < patterns[n].cooldown =>
                  /\ ~LogHas(tickLog', "call", n)
                  /\ ~LogHas(tickLog', "event", n)
                  /\ lastFire'[n] = lastFire[n]
            /\ (now - lastFire[n] >= patterns[n].cooldown
                /\ (LogHas(tickLog', "fire", n) \/ LogHas(tickLog', "suppress", n))) =>
                  /\ \E f \in DOMAIN tickLog' :
                        /\ tickLog'[f].k = "fire" /\ tickLog'[f].n = n
                        /\ RanAllHandlers(tickLog', f)
                  /\ lastFire'[n] = now
      ]_vars

\* a match suppressed at a time later than the firing and inside the cooldown
C1_Witness ==
    /\ "a" \in Registered
    /\ LogHas(tickLog, "suppress", "a")
    /\ lastFire["a"] >= 0
    /\ now > lastFire["a"]
    /\ now - lastFire["a"] < patterns["a"].cooldown
    /\ Len(patterns["a"].handlers) > 0

(***************************************************************************)
(* C2. Handler isolation: when a handler of a fired registration throws,   *)
(* all handlers of that registration still run in order, the pass goes on  *)
(* to the next registration, and every registration whose detector         *)
(* matches later in the pass fires or is suppressed by its cooldown with   *)
(* all its handlers run.  (Spec)                                           *)
(***************************************************************************)
C2_HandlerIsolation ==
    \A i \in DOMAIN tickLog :
       (tickLog[i].k = "call" /\ tickLog[i].v = "throw") =>
          LET n == tickLog[i].n
              f == i - tickLog[i].i
          IN /\ tickLog[f].k = "fire" /\ tickLog[f].n = n
             /\ RanAllHandlers(tickLog, f)
             /\ OrderIndex(n) < Len(patternOrder) =>
                   \E p \in (i + 1)..Len(tickLog) :
                      /\ tickLog[p].k \in {"skip", "detect"}
                      /\ tickLog[p].n = patternOrder[OrderIndex(n) + 1]
             /\ \A p \in (i + 1)..Len(tickLog) :
                   (tickLog[p].k = "detect" /\ tickLog[p].v = "match") =>
                      /\ p < Len(tickLog)
                      /\ tickLog[p + 1].n = tickLog[p].n
                      /\ tickLog[p + 1].k \in {"fire", "suppress"}
                      /\ tickLog[p + 1].k = "fire" => RanAllHandlers(tickLog, p + 1)

\* the first handler of "a" threw, its second handler ran, and "b" fired
\* and ran its handler in the same pass
C2_Witness ==
    /\ \E i \in DOMAIN tickLog :
          /\ tickLog[i] = Entry("call", "a", 1, "throw")
          /\ i < Len(tickLog)
          /\ tickLog[i + 1] = Entry("call", "a", 2, "ok")
    /\ LogHas(tickLog, "call", "b")

(***************************************************************************)
(* C3. Registering a name that is already registered raises an error on    *)
(* the second call.  (Spec)                                                *)
(***************************************************************************)
C3_DuplicateRaises ==
    (lastOp.op = "register" /\ lastOp.existed) => lastOp.threw

(***************************************************************************)
(* C5. After stop() no detection pass begins until detection is started    *)
(* again.  (SpecLoop)                                                      *)
(***************************************************************************)
C5_NoPassAfterStop == ~passStopped

(***************************************************************************)
(* C6. In a pass the guards of a registration are evaluated before its     *)
(* detector, and the detector is not run when a guard is false.            *)
(* (SpecGuards)                                                            *)
(***************************************************************************)
C6_GuardsBeforeDetector ==
    \A i \in DOMAIN tickLog, j \in DOMAIN tickLog :
       (/\ tickLog[i].k = "cond" /\ tickLog[j].k = "detect"
        /\ tickLog[i].n = tickLog[j].n) =>
          /\ i < j
          /\ tickLog[i].v # "false"

(***************************************************************************)
(* C7. When a custom detector throws in a pass, the pass still reaches      *)
(* every other registration: each active one is evaluated.  (Spec)         *)
(***************************************************************************)
C7_DetectorIsolation ==
    \A i \in DOMAIN tickLog :
       (tickLog[i].k = "detect" /\ tickLog[i].v = "throw"
        /\ patterns[tickLog[i].n].type = "custom") =>
          \A m \in Registered : Visited(tickLog, m)

(***************************************************************************)
(* C4. The pointer history never holds more samples than its capacity      *)
(* (100 native, 50 simple) and is exactly the most recent samples it took  *)
(* since the last pointer-down, in arrival order.  (SpecBuffer)            *)
(***************************************************************************)
LastOf(sq, k) == SubSeq(sq, Len(sq) - k + 1, Len(sq))

Smaller(a, b) == IF a < b THEN a ELSE b

C4_BoundedHistory ==
    /\ Len(mouseHistory) <= HistoryCapacity
    /\ mouseHistory = LastOf(nativeArrived, Smaller(HistoryCapacity, Len(nativeArrived)))
    /\ Len(simpleHistory) <= SimpleHistorySize
    /\ simpleHistory = LastOf(simpleArrived, Smaller(SimpleHistorySize, Len(simpleArrived)))

\* both buffers are full and each has evicted at least one sample
C4_Witness ==
    /\ Len(nativeArrived) > HistoryCapacity
    /\ Len(mouseHistory) = HistoryCapacity
    /\ Len(simpleArrived) > SimpleHistorySize
    /\ Len(simpleHistory) = SimpleHistorySize
    /\ mouseHistory[1] # nativeArrived[1]

(***************************************************************************)
(* C8. A three-step sequence fed the matching events A, B, C in that       *)
(* order, each within its step's timeout, completes: the evaluation of     *)
(* the sequence yields matches = true and a trace that is exactly the      *)
(* three matched steps in order.  (SpecSeq)                                *)
(***************************************************************************)
FedInOrder ==
    /\ Len(seqData) = Len(SequenceSteps)
    /\ \A i \in DOMAIN seqData : seqData[i].type = SequenceSteps[i]
    /\ \A i \in 2..Len(seqData) :
          seqData[i].timestamp - seqData[i - 1].timestamp <= SequenceTimeout

C8_SequenceCompletes ==
    FedInOrder =>
       /\ seqResult # <<>> =>
             /\ seqResult[1].matches
             /\ "trace" \in DOMAIN seqResult[1]
             /\ seqResult[1].trace = SequenceSteps
       /\ \A n \in Registered :
             (patterns[n].type = "sequence" /\ LogHas(tickLog, "detect", n)) =>
                \E i \in DOMAIN tickLog : tickLog[i] = Entry("detect", n, 0, "match")

(***************************************************************************)
(* C9. When the deadline of a step elapses before the next expected step   *)
(* matches, the sequence starts over from its first step, so a sequence    *)
(* only completes on steps A, B, C that each came within the deadline of   *)
(* the one before.  (SpecSeq)                                              *)
(***************************************************************************)
InTime(i, j) == seqData[j].timestamp - seqData[i].timestamp <= SequenceTimeout

C9_DeadlineResets ==
    (seqResult # <<>> /\ seqResult[1].matches) =>
       \E i, j, k \in DOMAIN seqData :
          /\ i < j /\ j < k
          /\ seqData[i].type = SequenceSteps[1]
          /\ seqData[j].type = SequenceSteps[2]
          /\ seqData[k].type = SequenceSteps[3]
          /\ InTime(i, j) /\ InTime(j, k)

(***************************************************************************)
(* C10. Calling the unsubscribe function a subscription returned removes   *)
(* exactly that subscription: no later publish invokes it, and every       *)
(* other subscription stays registered and is still invoked by a publish   *)
(* of its event.  (SpecBus)                                                *)
(***************************************************************************)
Due(w, ev) ==
    /\ wrappers[w].event = ev
    /\ w \notin unsubscribed
    /\ ~(wrappers[w].once /\ wrappers[w].called)

C10_UnsubscribeExact ==
    [][/\ \A i \in DOMAIN busLog' : busLog'[i].w \notin unsubscribed'
       /\ \A ev \in EventNames : \A w \in DOMAIN wrappers' :
             InSeq(busListeners'[ev], w) <=>
                (wrappers'[w].event = ev /\ w \notin unsubscribed')
       /\ \A ev \in EventNames : dispatch(ev) =>
             \A w \in DOMAIN wrappers :
                Due(w, ev) => \E i \in DOMAIN busLog' : busLog'[i].w = w]_vars

\* a publish after an unsubscribe invoked another subscription of the event
C10_Witness ==
    \E w \in unsubscribed : \E i \in DOMAIN busLog :
       /\ wrappers[w].event = wrappers[busLog[i].w].event
       /\ busLog[i].w # w

(***************************************************************************)
(* C11. After off(eventName, handler) with the handler function that was   *)
(* passed to on(eventName, handler, options), a later publish of           *)
(* eventName does not invoke that handler.  (SpecBusOff)                   *)
(***************************************************************************)
C11_OffByHandler ==
    \A i \in DOMAIN busLog :
       [ev |-> wrappers[busLog[i].w].event, h |-> busLog[i].h] # offCalled

(***************************************************************************)
(* C12. When a subscriber throws during a publish, every other subscriber  *)
(* of the event is still invoked for that publish and the publish does     *)
(* not throw.  (SpecBus)                                                   *)
(***************************************************************************)
C12_SubscriberIsolation ==
    [][\A ev \in EventNames : dispatch(ev) =>
          /\ ~busThrew'
          /\ \A j \in DOMAIN busListeners[ev] :
                LET w == busListeners[ev][j] IN
                (wrappers[w].once /\ wrappers[w].called) \/ w \in Ran(busLog')]_vars

\* a publish in which a subscriber threw and a later one was invoked
C12_Witness ==
    /\ ~busThrew
    /\ \E i, j \in DOMAIN busLog : i < j /\ busLog[i].h = "throw"

(***************************************************************************)
(* C13. A handler subscribed with the once option executes at most once    *)
(* over any sequence of publishes of its event.  (SpecBus)                 *)
(***************************************************************************)
C13_OnceAtMostOnce ==
    \A w \in DOMAIN wrappers : wrappers[w].once => w \notin executedTwice

(***************************************************************************)
(* C14. The diagnostic history of the event bus never holds more entries   *)
(* than its configured maximum; a publish recorded at capacity drops the   *)
(* oldest entry and the remaining entries keep publish order.  (SpecBus)   *)
(***************************************************************************)
Recorded(ev) == [type |-> ev, timestamp |-> now]

C14_HistoryBounded ==
    [][/\ Len(eventHistory') <= MaxHistory
       /\ \A ev \in EventNames : (dispatch(ev) /\ busListeners[ev] # <<>>) =>
             IF Len(eventHistory) < MaxHistory
             THEN eventHistory' = eventHistory \o <<Recorded(ev)>>
             ELSE eventHistory' = Tail(eventHistory) \o <<Recorded(ev)>>]_vars

\* the history is full of publishes of different events, after a drop
C14_Witness ==
    /\ historyDropped
    /\ Len(eventHistory) = MaxHistory
    /\ eventHistory[1].type # eventHistory[MaxHistory].type

(***************************************************************************)
(* C15. Enabling performance mode halves the effective sampling rate and   *)
(* truncates the retained sample history, and it does not stop detection:  *)
(* the tick loops keep running and every active registration stays         *)
(* active.  (SpecPerf)                                                     *)
(***************************************************************************)
ModeEnabled ==
    \/ enablePerformanceMode
    \/ (~performanceMode /\ \E fps \in FpsReadings : handlePerformanceIssue(fps)
                         /\ performanceMode')

C15_PerformanceMode ==
    [][ModeEnabled =>
          /\ 2 * monSampleRate' = monSampleRate
          /\ monSamples' = sliceLast(monSamples, KeptSamples)
          /\ rafQueue' = rafQueue
          /\ \A n \in Registered : patterns'[n].active = patterns[n].active]_vars

(***************************************************************************)
(* C16. A malformed input sample (missing or non-numeric coordinate or     *)
(* timestamp) is dropped: the channel's history is the same after the      *)
(* event as before it.  (SpecRaw)                                          *)
(***************************************************************************)
C16_MalformedDropped ==
    [][(\E d \in EventSteps : malformedMouseDown(d) \/ malformedMouseMove(d)) =>
          mouseHistory' = mouseHistory]_vars

(***************************************************************************)
(* C17. The handle returned by start exposes pause() and resume(): the     *)
(* calls succeed, after pause() no registration fires until resume() is    *)
(* called, and registrations are kept while paused.  (SpecPause)           *)
(***************************************************************************)
C17_PauseResume ==
    /\ lastOp.op \in {"pause", "resume"} => ~lastOp.threw
    /\ paused => FiredIn(tickLog) = {}

(***************************************************************************)
(* C18. For a point history of at least two points whose first-to-last     *)
(* displacement is at least minDistance long and lasts at most maxTime,    *)
(* swipe reports exactly one of right, down, left, up, determined by the   *)
(* displacement angle (-45..45 right, 45..135 down, 135..225 left,         *)
(* otherwise up), matches iff no direction was requested or the requested  *)
(* one is the reported one, and evaluating the same history again yields   *)
(* the same result.  (SpecSwipe)                                           *)
(***************************************************************************)
SwipeDx == swipeInput[1].points[Len(swipeInput[1].points)].x - swipeInput[1].points[1].x

SwipeDy == swipeInput[1].points[Len(swipeInput[1].points)].y - swipeInput[1].points[1].y

SwipeDuration ==
    swipeInput[1].points[Len(swipeInput[1].points)].timestamp
       - swipeInput[1].points[1].timestamp

\* the displacement is long enough and quick enough
SwipeQualifies ==
    /\ SwipeDx * SwipeDx + SwipeDy * SwipeDy
          >= swipeInput[1].options.minDistance * swipeInput[1].options.minDistance
    /\ SwipeDuration <= swipeInput[1].options.maxTime

\* the angle of the displacement lies in the range of the direction
InRange(dir) ==
    CASE dir = "right" -> SwipeDx >= Abs(SwipeDy)
      [] dir = "down" -> SwipeDy >= Abs(SwipeDx) /\ SwipeDy > 0
      [] dir = "left" -> 0 - SwipeDx >= Abs(SwipeDy) /\ SwipeDx < 0
      [] dir = "up" -> 0 - SwipeDy >= Abs(SwipeDx) /\ SwipeDy < 0
      [] OTHER -> FALSE

SwipeClassified ==
    \A i \in DOMAIN swipeResult :
       /\ "direction" \in DOMAIN swipeResult[i]
       /\ swipeResult[i].direction \in Directions
       /\ InRange(swipeResult[i].direction)
       /\ swipeResult[i].matches <=>
             (swipeInput[1].options.direction = NoDirection
              \/ swipeInput[1].options.direction = swipeResult[i].direction)
       /\ swipeResult[i] = swipeResult[1]

C18_SwipeDirection ==
    (swipeInput # <<>> /\ Len(swipeInput[1].points) >= 2 /\ SwipeQualifies)
       => SwipeClassified

\* the same for any point history, as the claim has it
C18_SwipeAnyHistory ==
    (swipeInput # <<>> /\ SwipeQualifies) => SwipeClassified

\* a diagonal swipe of three points, evaluated twice
C18_Witness ==
    /\ Len(swipeResult) = 2
    /\ Len(swipeInput[1].points) = 3
    /\ SwipeQualifies
    /\ SwipeDx = SwipeDy /\ SwipeDx > 0
    /\ swipeResult[2].direction = "down"

(***************************************************************************)
(* C19. For at least 8 points evenly distributed on a circle of known      *)
(* centre and radius, the circle detector returns a match with confidence  *)
(* >= 0.7 and a detected radius within radius x tolerance of the true      *)
(* radius; its confidence is a fraction of the points and so lies in       *)
(* [0, 1].  (SpecCircle)                                                   *)
(***************************************************************************)
C19_CircleDetected ==
    circleResult # <<>> =>
       LET in == circleInput[1]
           r == circleResult[1]
       IN /\ r.confidence.den = Len(in.points)
          /\ 0 <= r.confidence.num /\ r.confidence.num <= r.confidence.den
          /\ in.truth.displaced = 0 =>
                /\ r.matches
                /\ 10 * r.confidence.num >= 7 * r.confidence.den
                /\ in.options.tolerance.den * Abs(r.radius - 10 * in.truth.radius)
                      <= 10 * in.truth.radius * in.options.tolerance.num

\* sixteen points on a circle, all within tolerance
C19_Witness ==
    /\ circleResult # <<>>
    /\ circleInput[1].truth.displaced = 0
    /\ Len(circleInput[1].points) = 16
    /\ circleResult[1].confidence = [num |-> 16, den |-> 16]

\* with displaced points the confidence is strictly between 0 and 1
C19_PartialWitness ==
    /\ circleResult # <<>>
    /\ 0 < circleResult[1].confidence.num
    /\ circleResult[1].confidence.num < circleResult[1].confidence.den

(***************************************************************************)
(* C20. After setContext(c) on the simple HMIManager, activeContext equals *)
(* c and, until the next setContext call, a gesture can fire only if its   *)
(* name is listed in context c.  contextListed is the list context c had   *)
(* when setContext(c) was called.  (SpecMgr)                               *)
(***************************************************************************)
C20_ContextGates ==
    /\ [][\A c \in ContextNames : setContext(c) => activeContext' = c]_vars
    /\ [](contextSet => mgrFired \subseteq contextListed)

\* a gesture that the active context does not list fires after setContext
C20_FiresUnlisted ==
    /\ contextSet
    /\ \E n \in mgrFired : n \notin contextListed
                           /\ n \notin contextGestures(mgrContexts, activeContext)

(***************************************************************************)
(* C21. A tick in which a registration's pattern does not match, or        *)
(* matches inside the cooldown window, changes none of that registration's *)
(* state: lastTriggered, trigger count and average confidence are          *)
(* unchanged, no handler of it runs and no gesture-detected event is       *)
(* published for it.  (Spec)                                               *)
(***************************************************************************)
NoMatchIn(log, n) ==
    \E i \in DOMAIN log : log[i] = Entry("detect", n, 0, "nomatch")

C21_QuietTick ==
    [][\A n \in Registered :
         (NoMatchIn(tickLog', n) \/ LogHas(tickLog', "suppress", n)) =>
            /\ patterns'[n].lastTriggered = patterns[n].lastTriggered
            /\ patterns'[n].triggered = patterns[n].triggered
            /\ patterns'[n].totalConfidence = patterns[n].totalConfidence
            /\ patterns'[n].avgConfidence = patterns[n].avgConfidence
            /\ ~LogHas(tickLog', "call", n)
            /\ ~LogHas(tickLog', "event", n)
            /\ lastFire'[n] = lastFire[n]
      ]_vars

\* "a" has fired once and is suppressed in a tick in which "b" fires
C21_Witness ==
    /\ "a" \in Registered
    /\ LogHas(tickLog, "suppress", "a")
    /\ LogHas(tickLog, "event", "b")
    /\ patterns["a"].triggered = 1
    /\ patterns["a"].avgConfidence = 80
    /\ Len(patterns["a"].handlers) > 0

(***************************************************************************)
(* C22. When a registration fires, lastTriggered is set to the current     *)
(* time, its trigger count increases by exactly one, each of its handlers  *)
(* is invoked exactly once in the order the handlers were added, and       *)
(* exactly one gesture-detected event is published for that firing, after  *)
(* all its handlers have run.  (Spec)                                      *)
(***************************************************************************)
CountIn(log, k, n) == Cardinality({i \in DOMAIN log : log[i].k = k /\ log[i].n = n})

C23_NoFatalError ==
    (tickThrew /\ ~stopped /\ attachedSets > 0) => rafQueue > 0

\* a custom detector threw in a pass of the started loop and no analysis
\* callback is pending: no pass will run again
C23_LoopDead ==
    /\ tickThrew
    /\ ~stopped
    /\ attachedSets > 0
    /\ rafQueue = 0
    /\ \E i \in DOMAIN tickLog :
          /\ tickLog[i].k = "detect" /\ tickLog[i].v = "throw"
          /\ patterns[tickLog[i].n].type = "custom"
          /\ patterns[tickLog[i].n].active

(***************************************************************************)
(* C24. A sequence pattern reports matches=true only when every one of its *)
(* steps has been matched, in order; input that matches only a proper      *)
(* subset of the steps never yields a match.  (SpecSeqGiven)               *)
(***************************************************************************)
\* the steps occur among the events, in order
RECURSIVE StepsOccur(_, _, _, _)
StepsOccur(steps, events, i, j) ==
    IF i > Len(steps) THEN TRUE
    ELSE IF j > Len(events) THEN FALSE
    ELSE IF events[j].type = steps[i].type
         THEN StepsOccur(steps, events, i + 1, j + 1)
         ELSE StepsOccur(steps, events, i, j + 1)

C24_AllStepsMatched ==
    (seqResult # <<>> /\ seqResult[1].matches) =>
       /\ seqResult[1].matchedEvents = Len(seqPattern.sequence)
       /\ StepsOccur(seqPattern.sequence, seqData, 1, 1)

\* four of the five steps were matched and the result is a match
C24_SubsetMatches ==
    /\ seqResult # <<>>
    /\ seqResult[1].matches
    /\ Len(seqPattern.sequence) = 5
    /\ seqResult[1].matchedEvents = 4
    /\ ~StepsOccur(seqPattern.sequence, seqData, 1, 1)

(***************************************************************************)
(* C25. When gaps are disallowed for a sequence, a non-matching event      *)
(* arriving between two expected steps resets the sequence to its first    *)
(* step, so the sequence matches only if its steps arrive with no other    *)
(* event in between.  (SpecSeqGiven)                                       *)
(***************************************************************************)
\* the steps are the events from position k + 1 on, one after the other
StepsAdjacentAt(steps, events, k) ==
    /\ k + Len(steps) <= Len(events)
    /\ \A i \in DOMAIN steps : events[k + i].type = steps[i].type

C25_NoEventBetween ==
    (seqResult # <<>> /\ seqResult[1].matches /\ ~seqPattern.allowGaps) =>
       \E k \in 0..Len(seqData) : StepsAdjacentAt(seqPattern.sequence, seqData, k)

\* all three steps came, with another event between the first two, and the
\* result is a match
C25_GapAccepted ==
    /\ seqResult # <<>>
    /\ seqResult[1].matches
    /\ ~seqPattern.allowGaps
    /\ Len(seqPattern.sequence) = 3
    /\ Len(seqData) = 4
    /\ seqData[1].type = "A" /\ seqData[2].type = "D"
    /\ seqData[3].type = "B" /\ seqData[4].type = "C"

(***************************************************************************)
(* C26. When a pointer ends, that channel's history is cleared: after      *)
(* pointer-up the pointer history is empty, and pointer movement adds no   *)
(* samples until the next pointer-down.  (SpecPointer)                     *)
(***************************************************************************)
C26_ClearedOnPointerUp == pointerUp => mouseHistory = <<>>

\* the pointer is up and the history holds a sample of a movement that came
\* after the pointer-up
C26_MovedAfterUp ==
    /\ pointerUp
    /\ \E i \in 1..(Len(mouseHistory) - 1) :
          mouseHistory[i + 1].x = mouseHistory[i].x + 2

(***************************************************************************)
(* C27. The sample sequence handed to a detector in a tick is a read-only  *)
(* copy of the buffer: nothing a custom detector or handler does to the    *)
(* sequence it receives changes the buffer or the samples seen by other    *)
(* registrations in the same tick: a detection pass leaves the pointer     *)
(* history as it found it.  (SpecShared)                                   *)
(***************************************************************************)
C27_BufferUntouched ==
    [][tickLog' # <<>> => mouseHistory' = mouseHistory]_vars

\* the detector of "a" popped a point off the array it was handed, "b" was
\* evaluated after it in the same pass, and the history has lost the sample
\* that arrived last
C27_SampleLost ==
    /\ \E i, j \in DOMAIN tickLog :
          /\ i < j
          /\ tickLog[i] = Entry("detect", "a", 0, "pop")
          /\ tickLog[j].k = "detect" /\ tickLog[j].n = "b"
    /\ Len(nativeArrived) >= 2
    /\ Len(mouseHistory) < Len(nativeArrived)

(***************************************************************************)
(* C28. Every publish(eventName, data) appends exactly one entry to the    *)
(* diagnostic history, whether or not the event has subscribers at that    *)
(* moment: after the publish the entry of the event is the newest one, and *)
(* the history is the old one with it appended, less the oldest entry if   *)
(* the history was full.  (SpecBus)                                        *)
(***************************************************************************)
C28_EveryPublishRecorded ==
    [][\A ev \in EventNames :
         dispatch(ev) =>
            LET pushed == Append(eventHistory, [type |-> ev, timestamp |-> now])
            IN \/ eventHistory' = pushed
               \/ Len(eventHistory) = MaxHistory /\ eventHistory' = Tail(pushed)
      ]_vars

(***************************************************************************)
(* C29. A handler subscribed with a throttle interval T executes at most   *)
(* once per interval: after it executes for a publish at time t, publishes *)
(* arriving before t + T do not execute it, and a publish arriving at or   *)
(* after t + T does.  Stated for the publish that follows an executing     *)
(* publish with no time between them: the handler that ran in the first    *)
(* does not run in the second.  (SpecBusTimed)                             *)
(***************************************************************************)
Throttled(w) == wrappers[w].throttle > 0 /\ wrappers[w].debounce = 0

C29_ThrottleInterval ==
    [][\A w \in DOMAIN wrappers :
         (/\ dispatch("e1")
          /\ Throttled(w)
          /\ w \in Ran(busLog)) => w \notin Ran(busLog')
      ]_vars

\* a throttled handler that throws has run and no call of it is recorded
C29_ThrowerUnthrottled ==
    \E w \in DOMAIN wrappers :
       /\ Throttled(w)
       /\ wrappers[w].handler = "throw"
       /\ w \in Ran(busLog)
       /\ wrappers[w].lastCall = 0

(***************************************************************************)
(* C30. Pinch matches only while exactly two touch contacts are active,    *)
(* and its scale is the current distance between the two contacts divided  *)
(* by their distance captured when the contacts started, never a fixed     *)
(* constant; it matches iff |1 - scale| >= threshold.  Stated for each of  *)
(* the two pinch detectors that is listening.  (SpecTouch)                 *)
(***************************************************************************)
CurrentSquared == pointDistanceSquared(TouchAt(touches[1]), TouchAt(touches[2]))

InitialSquared == pointDistanceSquared(touches[1].began, touches[2].began)

PinchConforms(r, th) ==
    /\ r.matches => Len(touches) = 2
    /\ Len(touches) = 2 =>
          /\ "scale" \in DOMAIN r
          /\ r.scale = [num2 |-> CurrentSquared, den2 |-> InitialSquared]
          /\ r.matches <=> scaleChangeAtLeast(CurrentSquared, InitialSquared, th)

NativePinchConforms ==
    (pinchResult # <<>> /\ attachedSets > 0) =>
       PinchConforms(pinchResult[1].native, pinchResult[1].threshold)

SimplePinchConforms ==
    (pinchResult # <<>> /\ simpleActive) =>
       PinchConforms(pinchResult[1].simple, pinchResult[1].threshold)

C30_Pinch == NativePinchConforms /\ SimplePinchConforms

\* two contacts that started 150 apart and have not moved: the documented
\* detector reports a pinch of scale 150 / 100
C30_PlaceholderScale ==
    /\ pinchResult # <<>>
    /\ simpleActive
    /\ Len(touches) = 2
    /\ CurrentSquared = InitialSquared
    /\ pinchResult[1].simple.matches
    /\ pinchResult[1].simple.scale = [num2 |-> 150 * 150, den2 |-> 100 * 100]

(***************************************************************************)
(* C31. A registration made with the line pattern fires when the pointer   *)
(* history forms a stroke whose first-to-last segment is at least          *)
(* minLength long and whose every intermediate point lies within           *)
(* maxDeviation of that segment: a pass that evaluates such a registration *)
(* on such a history, outside its cooldown, fires it.  (SpecLine)          *)
(***************************************************************************)
\* twice the area of the triangle first, last, p
CrossProduct(first, last, p) ==
    (last.x - first.x) * (p.y - first.y) - (last.y - first.y) * (p.x - first.x)

StrokeQualifies(points, options) ==
    /\ Len(points) >= 2
    /\ LET first == points[1]
           last == points[Len(points)]
           len2 == (last.x - first.x) * (last.x - first.x)
                      + (last.y - first.y) * (last.y - first.y)
       IN /\ len2 >= options.minLength * options.minLength
          /\ \A i \in 2..(Len(points) - 1) :
                CrossProduct(first, last, points[i]) * CrossProduct(first, last, points[i])
                   <= options.maxDeviation * options.maxDeviation * len2

C31_LineFires ==
    \A n \in Registered :
       (/\ patterns[n].type = "mouse_line"
        /\ LogHas(tickLog, "detect", n)
        /\ StrokeQualifies(mouseHistory, patterns[n].options)
        /\ now - patterns[n].lastTriggered >= patterns[n].cooldown)
          => LogHas(tickLog, "fire", n)

\* a pass has evaluated the line registration on a straight stroke longer
\* than minLength and reported no match
C31_LineIgnored ==
    /\ "a" \in Registered
    /\ patterns["a"].type = "mouse_line"
    /\ Len(patterns["a"].handlers) > 0
    /\ StrokeQualifies(mouseHistory, patterns["a"].options)
    /\ Len(mouseHistory) >= 4
    /\ \E i \in DOMAIN tickLog : tickLog[i] = Entry("detect", "a", 0, "nomatch")
    /\ patterns["a"].triggered = 0

(***************************************************************************)
(* C32: at any time at most one analysis loop is scheduled for a detector: *)
(* however often startDetection is called, with a pattern name (as a       *)
(* dynamic detector does) or without, at most one frame callback is        *)
(* pending, so each animation frame runs at most one detection pass.       *)
(***************************************************************************)
C32_OneLoop == rafQueue <= 1

\* two startDetection calls without a stop in between: two callbacks pending
C32_TwoLoops == rafQueue = 2 /\ attachedSets = 2 /\ ~stopped

(***************************************************************************)
(* C33: one performed gesture fires a registration at most once.  When a   *)
(* registration has fired and no sample of the pointer history is newer    *)
(* than that firing (the history is the one it fired on), a later tick     *)
(* that leaves the history unchanged does not fire the registration again, *)
(* however much time has passed.  (SpecRepeat)                             *)
(***************************************************************************)
C33_FiresOnce ==
    [][\A n \in Names :
         (/\ n \in Registered
          /\ lastFire[n] >= 0
          /\ mouseHistory # <<>>
          /\ \A i \in DOMAIN mouseHistory : mouseHistory[i].timestamp <= lastFire[n]
          /\ mouseHistory' = mouseHistory
          /\ tickLog' # <<>>) =>
            ~LogHas(tickLog', "fire", n)
      ]_vars

\* the registration has fired twice and every sample of the history is
\* older than the second firing by more than the cooldown
C33_FiredTwice ==
    /\ "a" \in Registered
    /\ patterns["a"].triggered = 2
    /\ Len(mouseHistory) >= 2
    /\ LogHas(tickLog, "fire", "a")
    /\ \A i \in DOMAIN mouseHistory :
          mouseHistory[i].timestamp + patterns["a"].cooldown < lastFire["a"]

(***************************************************************************)
(* C34: a registration that has never fired is never suppressed by the     *)
(* cooldown.  While a registration has not fired, no tick ends with its    *)
(* match (all guards true) suppressed: the first match runs the handlers,  *)
(* whatever the clock shows and whatever cooldown is set.  (SpecCooldown)  *)
(***************************************************************************)
C34_FirstMatchFires ==
    \A n \in Names :
        (n \in Registered /\ lastFire[n] < 0) => ~LogHas(tickLog, "suppress", n)

\* the first match of a registration, made when the clock shows less than
\* the cooldown, was suppressed: no handler ran and nothing was counted
C34_EarlySuppressed ==
    /\ "a" \in Registered
    /\ lastFire["a"] < 0
    /\ patterns["a"].triggered = 0
    /\ Len(patterns["a"].handlers) > 0
    /\ LogHas(tickLog, "suppress", "a")
    /\ ~LogHas(tickLog, "call", "a")
    /\ now < patterns["a"].cooldown

(***************************************************************************)
(* C35: a gesture registered while detection is running is evaluated on    *)
(* the subsequent ticks without another startDetection call.  In every     *)
(* pass run by a frame callback of the running loop, no registration is    *)
(* passed over as inactive: each one reached by the pass has its detector  *)
(* evaluated.  (Spec: nothing but startDetection changes an active flag,   *)
(* and startDetection is called only while no loop is running)             *)
(***************************************************************************)
C35_LateRegistrationEvaluated ==
    [][(rafQueue > 0 /\ ~stopped /\ tickLog' # <<>>) =>
          \A n \in Registered : ~LogHas(tickLog', "skip", n)
      ]_vars

\* a frame pass evaluated "a", active since startDetection, and passed over
\* "b", which was registered and given a handler after the loop had started
C35_LateSkipped ==
    /\ Registered = {"a", "b"}
    /\ rafQueue > 0
    /\ patterns["a"].active
    /\ ~patterns["b"].active
    /\ Len(patterns["b"].handlers) > 0
    /\ LogHas(tickLog, "detect", "a")
    /\ LogHas(tickLog, "skip", "b")
    /\ ~LogHas(tickLog, "detect", "b")

(***************************************************************************)
(* C36: after stopDetection() with no argument has returned, no listener   *)
(* installed by the detector is attached to the target, and as long as     *)
(* detection is not started again a mouse or touch event leaves the        *)
(* pointer history and the touch history unchanged, however many times     *)
(* startDetection was called before.  (SpecDetach)                         *)
(***************************************************************************)
C36_DetachedAfterStop ==
    [][/\ stopped' => attachedSets' = 0
       /\ (stopped /\ stopped') =>
             (mouseHistory' = mouseHistory /\ touchHistory' = touchHistory)
      ]_vars

\* after two startDetection calls and one stopDetection() a listener set is
\* still attached, and the histories hold samples of events delivered since
C36_StillListening ==
    /\ stopped
    /\ attachedSets = 1
    /\ ~listenersHeld
    /\ mouseHistory # <<>>
    /\ touchHistory # <<>>
    /\ \A i \in DOMAIN mouseHistory : mouseHistory[i].timestamp > 200

(***************************************************************************)
(* C37: the registration built by gesture(name) does not depend on the     *)
(* order of the builder calls.  Once a pattern call has been made, the     *)
(* registration has the type of the last pattern call, every handler and   *)
(* every guard condition supplied so far, in the order supplied, and the   *)
(* cooldown last supplied (the default when none was), whether they were   *)
(* supplied before or after a pattern call.  (SpecBuilder)                 *)
(***************************************************************************)
SuppliedArgs(k) ==
    LET calls == SelectSeq(builderCalls, LAMBDA c : c.k = k)
    IN [i \in DOMAIN calls |-> calls[i].arg]

LastPatternType ==
    LET calls == SelectSeq(builderCalls, LAMBDA c : c.k \in PatternCalls)
    IN IF calls[Len(calls)].k = "custom" THEN "custom" ELSE "mouse_line"

C37_OrderIndependent ==
    (\E i \in DOMAIN builderCalls : builderCalls[i].k \in PatternCalls) =>
        /\ "a" \in Registered
        /\ patterns["a"].type = LastPatternType
        /\ patterns["a"].handlers = SuppliedArgs("on")
        /\ patterns["a"].conditions = SuppliedArgs("when")
        /\ patterns["a"].cooldown =
              IF SuppliedArgs("cooldown") = <<>> THEN DefaultCooldown
              ELSE SuppliedArgs("cooldown")[Len(SuppliedArgs("cooldown"))]

\* gesture("a").on(h).cooldown(150).custom(fn): the registration has no
\* handler and the default cooldown
C37_HandlerDropped ==
    /\ builderCalls = <<[k |-> "on", arg |-> "ok"], [k |-> "cooldown", arg |-> 150],
                        [k |-> "custom", arg |-> ""]>>
    /\ "a" \in Registered
    /\ patterns["a"].handlers = <<>>
    /\ patterns["a"].cooldown = DefaultCooldown

(***************************************************************************)
(* C38: whenever setActiveContext(c) has returned true, registry c is      *)
(* active and every other registered context registry is inactive,         *)
(* whatever start, stop and context-switch calls came before.              *)
(* (SpecContext)                                                           *)
(***************************************************************************)
C38_OneActiveContext ==
    contextReturned # NoName =>
        /\ registryActive[contextReturned]
        /\ \A r \in sysRegistries \ {contextReturned} : ~registryActive[r]

\* startDetection() activated every registry, and the context switch that
\* followed deactivated none of them
C38_TwoActive ==
    /\ contextReturned = "properties"
    /\ detectionActive
    /\ sysRegistries = {"properties", "sidebar"}
    /\ registryActive["properties"]
    /\ registryActive["sidebar"]

(***************************************************************************)
(* C40: the core components are created and the global handlers installed  *)
(* at most once per HMISystem, whatever the interleaving of init() calls,  *)
(* including a second init() issued before the first call's promise has    *)
(* resolved.  (SpecInit)                                                   *)
(***************************************************************************)
C40_InitOnce == coreCreated <= 1 /\ globalHandlerSets <= 1

\* two init() calls were made before either had resumed; both have now
\* resumed: two sets of components, two pairs of global listeners
C40_InitTwice ==
    /\ initialized
    /\ initPending = 0
    /\ coreCreated = 2
    /\ globalHandlerSets = 2
    /\ monitorLoops = 2

(***************************************************************************)
(* C39: a handler subscribed to an event while a publish of that event is  *)
(* in progress is not invoked by that publish.  Every handler call a       *)
(* publish makes is the call of a handler that was subscribed before the   *)
(* publish began; a handler subscribed during the publish is a listener of *)
(* the event when the publish returns, for the next one.  (SpecBusLive)    *)
(***************************************************************************)
C39_LateSubscriberWaits ==
    [][/\ \A i \in DOMAIN busLog' : busLog'[i].w \in DOMAIN wrappers
       /\ \A w \in DOMAIN wrappers' \ DOMAIN wrappers :
             InSeq(busListeners'[wrappers'[w].event], w)
      ]_vars

\* the only publish so far called the subscribing handler and then the
\* handler that one had just subscribed
C39_RanInSamePublish ==
    /\ Len(wrappers) = 2
    /\ wrappers[1].handler = "subscribe"
    /\ Len(eventHistory) = 1
    /\ busLog = <<[w |-> 1, h |-> "subscribe"], [w |-> 2, h |-> "ok"]>>

====
